---- MODULE Spec2Model ----
(***************************************************************************)
(* kiutils/utils/sexpr.py: the S-expression parser (parse_sexp, driven by  *)
(* term_regex) and the canonical formatter (sexp_prettify).                *)
(*                                                                         *)
(* A text is a sequence of one-character strings.                          *)
(***************************************************************************)
EXTENDS Integers, Sequences, FiniteSets, TLC

VARIABLES
    \* ---- sexp_prettify: arguments and locals ----
    source, compact_save, formatted, cursor, list_depth, last_non_whitespace,
    in_quote, has_inserted_space, in_multi_line_list, in_xy, in_short_form,
    short_form_depth, column, backslash_count,
    \* ---- the caller of sexp_prettify ----
    fpc,         \* "scan" | "returned" | "done" | "idle"
    pass,        \* 1: sexp_prettify(s, c), 2: sexp_prettify(sexp_prettify(s, c), c)
    source0,     \* the text given to the first call
    result1,     \* what the first call returned
    result2,     \* what the second call returned
    \* ---- parse_sexp: argument and locals ----
    sexp, pos, stack, out,
    \* ---- the caller of parse_sexp ----
    ppc,         \* "scan" | "returned" | "AssertionError" | "IndexError" | "done" | "idle"
    tree,        \* the value parse_sexp returned, None while there is none
    round,       \* 1: parse_sexp(text), 2: parse_sexp(Unparse(parse_sexp(text)))
    sexp0,       \* the text given to the first call
    tree1,       \* what the first call returned
    \* ---- items/brditems.py, utils/parsing_utils.py ----
    exp,               \* the parsed expression given to from_sexpr
    item_i,            \* the position of the loop "for item in exp[..]"
    object,            \* the object that from_sexpr builds
    parsingSublayer,   \* StackupLayer.from_sexpr
    tempSublayer,      \* StackupLayer.from_sexpr
    key, flag_value, flag_compact, yesno,   \* the arguments of format_bool
    text,              \* what format_bool / to_sexpr returned
    object0,           \* the object given to to_sexpr
    result,            \* what parse_bool returned
    ipc                \* "idle" | "format" | "parse" | "loop" | "returned" | an exception

fmtVars == <<source, compact_save, formatted, cursor, list_depth,
             last_non_whitespace, in_quote, has_inserted_space,
             in_multi_line_list, in_xy, in_short_form, short_form_depth,
             column, backslash_count, fpc, pass, source0, result1, result2>>

parseVars == <<sexp, pos, stack, out, ppc, tree, round, sexp0, tree1>>

itemVars == <<exp, item_i, object, parsingSublayer, tempSublayer, key,
              flag_value, flag_compact, yesno, text, object0, result, ipc>>

vars == <<fmtVars, parseVars, itemVars>>

(***************************************************************************)
(* Bounds                                                                  *)
(***************************************************************************)
\* longest text enumerated exhaustively over FmtAlphabet
MaxFmtLen == 4
\* most child lists of a generated root list
MaxKids == 2
\* longest text enumerated exhaustively over ParseAlphabet
MaxParseLen == 3

(***************************************************************************)
(* Characters                                                              *)
(***************************************************************************)
NUL == "NUL"     \* the '\0' that next_non_whitespace returns at end of input
NoChar == ""     \* the initial '' of last_non_whitespace
None == <<"None">>

Alpha == {"a","b","c","d","e","f","g","h","i","j","k","l","m","n","o","p","q",
          "r","s","t","u","v","w","x","y","z",
          "A","B","C","D","E","F","G","H","I","J","K","L","M","N","O","P","Q",
          "R","S","T","U","V","W","X","Y","Z"}

\* a newline is not taken as whitespace
is_whitespaceMut(ch) == ch \in {" ", "\t", "\r"}
\* lines 86-87
is_whitespace(ch) == ch \in {" ", "\t", "\n", "\r"}

indent_size == 1
indent_char == "\t"

\* an indentation that is one tab too deep
IndentMut(n) == [i \in 1..(n + 1) |-> indent_char]

\* indent_char * (n * indent_size)
RECURSIVE Indent(_)
Indent(n) == IF n <= 0 THEN <<>> ELSE <<indent_char>> \o Indent(n - 1)

\* a limit one column too wide
XyLimitMut == 99 + 1
xy_special_case_column_limit == 99

\* a threshold that lets a line grow up to the xy limit
WrapThresholdMut == 72 + 27
consecutive_token_wrap_threshold == 72

ShortFormTokens ==
    { <<"f","o","n","t">>, <<"s","t","r","o","k","e">>, <<"f","i","l","l">>,
      <<"t","e","a","r","d","r","o","p">>, <<"o","f","f","s","e","t">>,
      <<"r","o","t","a","t","e">>, <<"s","c","a","l","e">> }

(***************************************************************************)
(* Look-ahead helpers of sexp_prettify (0-based idx as in the code; the    *)
(* character source[i] of the code is src[i + 1] here).                    *)
(***************************************************************************)
RECURSIVE next_non_whitespace(_, _)
next_non_whitespace(src, idx) ==
    IF idx < Len(src) /\ is_whitespace(src[idx + 1])
    THEN next_non_whitespace(src, idx + 1)
    ELSE IF idx < Len(src) THEN src[idx + 1] ELSE NUL

detect_xy(src, idx) ==
    IF idx + 3 >= Len(src) THEN FALSE
    ELSE src[idx + 2] = "x" /\ src[idx + 3] = "y" /\ src[idx + 4] = " "

RECURSIVE AlphaRun(_, _)
AlphaRun(src, i) ==
    IF i < Len(src) /\ src[i + 1] \in Alpha
    THEN <<src[i + 1]>> \o AlphaRun(src, i + 1)
    ELSE <<>>

detect_short_form(src, idx) == AlphaRun(src, idx + 1) \in ShortFormTokens

\* the short form entered whatever the compact flag says
CurrentIsShortMut(src, idx, compact) == detect_short_form(src, idx)

\* line 146: current_is_short = compact_save and detect_short_form(cursor)
CurrentIsShort(src, idx, compact) == compact /\ detect_short_form(src, idx)

(***************************************************************************)
(* Inputs of the formatter                                                 *)
(***************************************************************************)
FmtAlphabet == {"(", ")", " ", "\t", "a", "\"", "\\"}

RECURSIVE TextsUpTo(_, _)
TextsUpTo(A, n) ==
    IF n = 0 THEN { <<>> }
    ELSE LET S == TextsUpTo(A, n - 1)
         IN  S \cup { Append(t, ch) : t \in { u \in S : Len(u) = n - 1 }, ch \in A }

\* the texts of the scenarios that the inputs add to the exhaustive ones
Texts ==
    [
     Board |->
         <<"(", "b", "o", "a", "r", "d", " ", "(", "l", "a", "y", "e", "r", " ",
         "1", " ", "F", ".", "C", "u", " ", "s", "i", "g", "n", "a", "l", ")",
         " ", "(", "t", "h", "i", "c", "k", "n", "e", "s", "s", " ", "1", ".",
         "6", ")", ")">>,
     XyTab |->
         <<"(", "a", " ", "(", "x", "y", "\t", "1", " ", "2", ")", " ", "(", "x",
         "y", " ", "3", " ", "4", ")", ")">>,
     Xy |->
         <<"(", "a", " ", "(", "x", "y", " ", "1", " ", "2", ")", " ", "(", "x",
         "y", " ", "3", " ", "4", ")", ")">>,
     MissingClose |->
         <<"(", "a", " ", "(", "b", ")">>,
     ExtraClose |->
         <<"(", "a", ")", ")">>,
     OneDotZero |->
         <<"(", "a", " ", "1", ".", "0", ")">>,
     OneDotFive |->
         <<"(", "a", " ", "1", ".", "5", ")">>,
     MinusThree |->
         <<"(", "a", " ", "-", "3", ")">>,
     EscapedQuote |->
         <<"(", "a", " ", "\"", "x", "\\", "\"", "y", "\"", ")">>,
     TwoRoots |->
         <<"(", "a", ")", " ", "(", "b", ")">>,
     AtomThenList |->
         <<"a", " ", "(", "b", ")">>,
     NumberBeforeNewline |->
         <<"(", "a", " ", "1", "\n", ")">>,
     PlusFive |->
         <<"(", "a", " ", "+", "5", ")">>,
     Caret |->
         <<"(", "a", "^", "b", ")">>,
     SplitQuote |->
         <<"(", "\"", "a", " ", "b", "\"", "^", ")">>,
     NestedShort |->
         <<"(", "a", " ", "(", "s", "t", "r", "o", "k", "e", " ", "(", "f", "i",
         "l", "l", " ", "b", ")", " ", "(", "c", ")", ")", ")">>,
     Stroke |->
         <<"(", "a", " ", "(", "s", "t", "r", "o", "k", "e", " ", "(", "w", "i",
         "d", "t", "h", " ", "1", ")", " ", "(", "t", "y", "p", "e", " ", "x",
         ")", ")", " ", "(", "d", ")", ")">>,
     LongTokens |->
         <<"(", "a", " ", "t", "o", "k", "0", "0", " ", "t", "o", "k", "0", "1",
         " ", "t", "o", "k", "0", "2", " ", "t", "o", "k", "0", "3", " ", "t",
         "o", "k", "0", "4", " ", "t", "o", "k", "0", "5", " ", "t", "o", "k",
         "0", "6", " ", "t", "o", "k", "0", "7", " ", "t", "o", "k", "0", "8",
         " ", "t", "o", "k", "0", "9", " ", "t", "o", "k", "1", "0", " ", "t",
         "o", "k", "1", "1", " ", "t", "o", "k", "1", "2", " ", "t", "o", "k",
         "1", "3", " ", "(", "b", " ", "c", ")", " ", "d", ")">>,
     LongShort |->
         <<"(", "s", "t", "r", "o", "k", "e", " ", "t", "o", "k", "0", "0", " ",
         "t", "o", "k", "0", "1", " ", "t", "o", "k", "0", "2", " ", "t", "o",
         "k", "0", "3", " ", "t", "o", "k", "0", "4", " ", "t", "o", "k", "0",
         "5", " ", "t", "o", "k", "0", "6", " ", "t", "o", "k", "0", "7", " ",
         "t", "o", "k", "0", "8", " ", "t", "o", "k", "0", "9", " ", "t", "o",
         "k", "1", "0", " ", "t", "o", "k", "1", "1", " ", "t", "o", "k", "1",
         "2", " ", "t", "o", "k", "1", "3", ")">>,
     LongXy |->
         <<"(", "x", "y", " ", "t", "o", "k", "0", "0", " ", "t", "o", "k", "0",
         "1", " ", "t", "o", "k", "0", "2", " ", "t", "o", "k", "0", "3", " ",
         "t", "o", "k", "0", "4", " ", "t", "o", "k", "0", "5", " ", "t", "o",
         "k", "0", "6", " ", "t", "o", "k", "0", "7", " ", "t", "o", "k", "0",
         "8", " ", "t", "o", "k", "0", "9", " ", "t", "o", "k", "1", "0", " ",
         "t", "o", "k", "1", "1", " ", "t", "o", "k", "1", "2", " ", "t", "o",
         "k", "1", "3", ")">>,
     Pts |->
         <<"(", "p", "t", "s", " ", "(", "x", "y", " ", "1", " ", "2", ")", " ",
         "(", "x", "y", " ", "1", " ", "2", ")", " ", "(", "x", "y", " ", "1",
         " ", "2", ")", " ", "(", "x", "y", " ", "1", " ", "2", ")", " ", "(",
         "x", "y", " ", "1", " ", "2", ")", " ", "(", "x", "y", " ", "1", " ",
         "2", ")", " ", "(", "x", "y", " ", "1", " ", "2", ")", " ", "(", "x",
         "y", " ", "1", " ", "2", ")", " ", "(", "x", "y", " ", "1", " ", "2",
         ")", " ", "(", "x", "y", " ", "1", " ", "2", ")", " ", "(", "x", "y",
         " ", "1", " ", "2", ")", " ", "(", "x", "y", " ", "1", " ", "2", ")",
         " ", "(", "x", "y", " ", "1", " ", "2", ")", ")">>,
     FillXy |->
         <<"(", "f", "i", "l", "l", " ", "(", "x", "y", " ", "1", " ", "2", ")",
         " ", "(", "x", "y", " ", "1", " ", "2", ")", " ", "(", "x", "y", " ",
         "1", " ", "2", ")", " ", "(", "x", "y", " ", "1", " ", "2", ")", " ",
         "(", "x", "y", " ", "1", " ", "2", ")", " ", "(", "x", "y", " ", "1",
         " ", "2", ")", " ", "(", "x", "y", " ", "1", " ", "2", ")", " ", "(",
         "x", "y", " ", "1", " ", "2", ")", " ", "(", "x", "y", " ", "1", " ",
         "2", ")", " ", "(", "x", "y", " ", "1", " ", "2", ")", " ", "(", "x",
         "y", " ", "1", " ", "2", ")", " ", "(", "x", "y", " ", "1", " ", "2",
         ")", " ", "(", "x", "y", " ", "1", " ", "2", ")", ")">>,
     BackslashGap |->
         <<"(", "\\", " ", "\"", "a", " ", " ", "b", "\"", ")">>,
     EvenBackslash |->
         <<"(", "\"", "a", "\\", "\\", "\"", " ", "\"", " ", "b", "\"", ")">>,
     NumberBeforeList |->
         <<"(", "a", " ", "1", " ", "(", "b", ")", ")">>,
     QuotedGap |->
         <<"(", "a", " ", "\"", "x", " ", " ", "y", "\"", " ", "(", "b", ")", ")">>,
     \* heads that begin with a short-form keyword
     FillSegments |->
         <<"(", "f", "i", "l", "l", "_", "s", "e", "g", "m", "e", "n", "t", "s", " ",
         "(", "a", ")", " ", "(", "b", ")", ")">>,
     ScaleOne |->
         <<"(", "s", "c", "a", "l", "e", "1", " ", "(", "a", ")", " ", "(", "b", ")", ")">>,
     \* whitespace after an open paren, between tokens and before parens
     Hygiene |->
         <<"(", " ", "a", " ", " ", "b", " ", " ", "(", "c", ")", " ", ")">>,
     \* a list that opens right after the open paren of a short-form list
     FillNested |->
         <<"(", "f", "i", "l", "l", " ", "(", "(", "a", ")", ")", ")">> ]

\* a root list "(head kid kid ...)" assembled with single spaces
RECURSIVE JoinKids(_)
JoinKids(kids) ==
    IF kids = <<>> THEN <<>> ELSE <<" ">> \o Head(kids) \o JoinKids(Tail(kids))

RootOf(head, kids) == <<"(">> \o head \o JoinKids(kids) \o <<")">>

LayerLeaf ==
    <<"(", "l", "a", "y", "e", "r", " ", "1", " ", "F", ".", "C", "u", " ",
      "s", "i", "g", "n", "a", "l", ")">>
ThicknessLeaf ==
    <<"(", "t", "h", "i", "c", "k", "n", "e", "s", "s", " ", "1", ".", "6", ")">>
XyLeaf == <<"(", "x", "y", " ", "1", " ", "2", ")">>
EmptyLeaf == <<"(", ")">>

Heads == { <<"b", "o", "a", "r", "d">>, <<"a">>, <<"x", "y">> }
Leaves == { LayerLeaf, ThicknessLeaf, XyLeaf, EmptyLeaf }

RECURSIVE SeqsOfLen(_, _)
SeqsOfLen(S, n) ==
    IF n = 0 THEN { <<>> }
    ELSE { <<x>> \o t : x \in S, t \in SeqsOfLen(S, n - 1) }

KidSeqs == UNION { SeqsOfLen(Leaves, n) : n \in 1..MaxKids }

RootTexts == { RootOf(h, kids) : h \in Heads, kids \in KidSeqs }

\* a text that is already laid out: "(a\n\t(b)\n)\n"
FormattedText == <<"(", "a", "\n", "\t", "(", "b", ")", "\n", ")", "\n">>

FmtScenarios ==
    { Texts.Board, Texts.XyTab, Texts.Xy, Texts.NestedShort, Texts.Stroke,
      Texts.LongTokens, Texts.LongShort, Texts.LongXy, Texts.Pts, Texts.FillXy,
      Texts.BackslashGap, FormattedText, Texts.FillSegments, Texts.ScaleOne,
      Texts.Hygiene, Texts.FillNested }

FmtInputs == FmtScenarios \cup RootTexts \cup TextsUpTo(FmtAlphabet, MaxFmtLen)

(***************************************************************************)
(* sexp_prettify                                                           *)
(***************************************************************************)
\* a call that starts on the output buffer and the column of the call before
FmtStartMut(s) ==
    /\ source' = s
    /\ formatted' = formatted
    /\ cursor' = 0
    /\ list_depth' = 0
    /\ last_non_whitespace' = NoChar
    /\ in_quote' = FALSE
    /\ has_inserted_space' = FALSE
    /\ in_multi_line_list' = FALSE
    /\ in_xy' = FALSE
    /\ in_short_form' = FALSE
    /\ short_form_depth' = 0
    /\ column' = column
    /\ backslash_count' = 0
    /\ fpc' = "scan"

\* lines 70-84: the state at the start of a call on text s
FmtStart(s) ==
    /\ source' = s
    /\ formatted' = <<>>
    /\ cursor' = 0
    /\ list_depth' = 0
    /\ last_non_whitespace' = NoChar
    /\ in_quote' = FALSE
    /\ has_inserted_space' = FALSE
    /\ in_multi_line_list' = FALSE
    /\ in_xy' = FALSE
    /\ in_short_form' = FALSE
    /\ short_form_depth' = 0
    /\ column' = 0
    /\ backslash_count' = 0
    /\ fpc' = "scan"

\* no from_sexpr, to_sexpr, parse_bool or format_bool call is in progress
ItemIdle ==
    /\ exp = None /\ item_i = 0 /\ object = None /\ parsingSublayer = FALSE
    /\ tempSublayer = None /\ key = <<>> /\ flag_value = FALSE
    /\ flag_compact = FALSE /\ yesno = FALSE /\ text = <<>>
    /\ object0 = None /\ result = None /\ ipc = "idle"

\* no parse_sexp call is in progress
ParseIdle ==
    /\ sexp = <<>> /\ pos = 0 /\ stack = <<>> /\ out = <<>>
    /\ ppc = "idle" /\ tree = None /\ round = 0 /\ sexp0 = <<>> /\ tree1 = None

FmtInit ==
    /\ source \in FmtInputs
    /\ compact_save \in BOOLEAN
    /\ formatted = <<>>
    /\ cursor = 0
    /\ list_depth = 0
    /\ last_non_whitespace = NoChar
    /\ in_quote = FALSE
    /\ has_inserted_space = FALSE
    /\ in_multi_line_list = FALSE
    /\ in_xy = FALSE
    /\ in_short_form = FALSE
    /\ short_form_depth = 0
    /\ column = 0
    /\ backslash_count = 0
    /\ fpc = "scan"
    /\ pass = 1
    /\ source0 = source
    /\ result1 = None
    /\ result2 = None
    /\ ParseIdle
    /\ ItemIdle

ch == source[cursor + 1]
\* a look-ahead that never finds the next character
nxtMut == NUL
nxt == next_non_whitespace(source, cursor)

\* a step that leaves the cursor where it is
NextCursorMut == cursor
\* line 211: cursor += 1
NextCursor == cursor + 1

\* the offsets of the text that the look-ahead helpers read from idx
\* lines 89-93: source[i] is read while i < length, up to the first
\* character that is not whitespace
NextNonWhitespaceReads(src, idx) ==
    { i \in idx..(Len(src) - 1) :
        \A j \in idx..(i - 1) : is_whitespace(src[j + 1]) }
\* lines 95-99: three characters unless idx + 3 >= length
DetectXyReads(src, idx) ==
    IF idx + 3 >= Len(src) THEN {} ELSE {idx + 1, idx + 2, idx + 3}
\* lines 101-107: source[i] is read while i < length, up to the first
\* character that is not a letter
DetectShortFormReads(src, idx) ==
    { i \in (idx + 1)..(Len(src) - 1) :
        \A j \in (idx + 1)..(i - 1) : src[j + 1] \in Alpha }
\* lines 113-114, 145-146: what one iteration of the loop reads
LookAheadReads ==
    {cursor} \cup NextNonWhitespaceReads(source, cursor)
        \cup (IF ch = "(" /\ ~in_quote
              THEN DetectXyReads(source, cursor)
                       \cup (IF compact_save
                             THEN DetectShortFormReads(source, cursor) ELSE {})
              ELSE {})
callerUnchanged ==
    UNCHANGED <<source, compact_save, fpc, pass, source0, result1, result2, parseVars, itemVars>>

\* lines 117-138: whitespace outside of a quoted string
Whitespace ==
    /\ fpc = "scan" /\ cursor < Len(source)
    /\ is_whitespace(ch) /\ ~in_quote
    /\ IF ~has_inserted_space /\ list_depth > 0 /\ last_non_whitespace # "("
          /\ nxt # ")" /\ nxt # "("
       THEN /\ IF in_xy \/ column < consecutive_token_wrap_threshold
               THEN /\ formatted' = Append(formatted, " ")
                    /\ column' = column + 1
                    /\ UNCHANGED in_multi_line_list
               ELSE IF in_short_form
               THEN /\ formatted' = Append(formatted, " ")
                    /\ column' = column + 1
                    /\ UNCHANGED in_multi_line_list
               ELSE /\ formatted' = formatted \o <<"\n">> \o Indent(list_depth * indent_size)
                    /\ column' = list_depth * indent_size
                    /\ in_multi_line_list' = TRUE
            /\ has_inserted_space' = TRUE
       ELSE UNCHANGED <<formatted, column, in_multi_line_list, has_inserted_space>>
    /\ cursor' = NextCursor
    /\ UNCHANGED <<list_depth, last_non_whitespace, in_quote, in_xy,
                   in_short_form, short_form_depth, backslash_count>>
    /\ callerUnchanged

\* lines 144-170: open paren
OpenParen ==
    /\ fpc = "scan" /\ cursor < Len(source)
    /\ ~(is_whitespace(ch) /\ ~in_quote)
    /\ ch = "(" /\ ~in_quote
    /\ LET current_is_xy == detect_xy(source, cursor)
           current_is_short == CurrentIsShort(source, cursor, compact_save)
       IN  /\ IF formatted = <<>>
              THEN /\ formatted' = Append(formatted, "(")
                   /\ column' = column + 1
              ELSE IF in_xy /\ current_is_xy /\ column < xy_special_case_column_limit
              THEN /\ formatted' = formatted \o <<" ", "(">>
                   /\ column' = column + 2
              ELSE IF in_short_form
              THEN /\ formatted' = formatted \o <<" ", "(">>
                   /\ column' = column + 2
              ELSE /\ formatted' = formatted \o <<"\n">> \o Indent(list_depth * indent_size) \o <<"(">>
                   /\ column' = list_depth * indent_size + 1
           /\ in_xy' = current_is_xy
           /\ IF current_is_short
              THEN in_short_form' = TRUE /\ short_form_depth' = list_depth
              ELSE UNCHANGED <<in_short_form, short_form_depth>>
    /\ list_depth' = list_depth + 1
    /\ has_inserted_space' = FALSE
    /\ last_non_whitespace' = ch
    /\ cursor' = NextCursor
    /\ UNCHANGED <<in_quote, in_multi_line_list, backslash_count>>
    /\ callerUnchanged

\* a decrement without the guard
DecrementDepthMut(d) == d - 1
\* lines 174-175: if list_depth > 0: list_depth -= 1
DecrementDepth(d) == IF d > 0 THEN d - 1 ELSE d

\* lines 173-192: close paren
CloseParen ==
    /\ fpc = "scan" /\ cursor < Len(source)
    /\ ~(is_whitespace(ch) /\ ~in_quote)
    /\ ch = ")" /\ ~in_quote
    /\ LET depth == DecrementDepth(list_depth)
       IN  /\ list_depth' = depth
           /\ IF in_short_form
              THEN /\ formatted' = Append(formatted, ")")
                   /\ column' = column + 1
                   /\ UNCHANGED in_multi_line_list
              ELSE IF last_non_whitespace = ")" \/ in_multi_line_list
              THEN /\ formatted' = formatted \o <<"\n">> \o Indent(depth * indent_size) \o <<")">>
                   /\ column' = depth * indent_size + 1
                   /\ in_multi_line_list' = FALSE
              ELSE /\ formatted' = Append(formatted, ")")
                   /\ column' = column + 1
                   /\ UNCHANGED in_multi_line_list
           /\ IF short_form_depth = depth
              THEN in_short_form' = FALSE /\ short_form_depth' = 0
              ELSE UNCHANGED <<in_short_form, short_form_depth>>
    /\ has_inserted_space' = FALSE
    /\ last_non_whitespace' = ch
    /\ cursor' = NextCursor
    /\ UNCHANGED <<in_quote, in_xy, backslash_count>>
    /\ callerUnchanged

\* a copy that leaves backslashes out
CopyCharMut(f, c) == IF c = "\\" THEN f ELSE Append(f, c)
\* line 205: formatted.append(ch)
CopyChar(f, c) == Append(f, c)

\* lines 195-206: any other character (whitespace inside a quoted string too)
OtherChar ==
    /\ fpc = "scan" /\ cursor < Len(source)
    /\ ~(is_whitespace(ch) /\ ~in_quote)
    /\ ~(ch = "(" /\ ~in_quote)
    /\ ~(ch = ")" /\ ~in_quote)
    /\ in_quote' = IF ch # "\\" /\ ch = "\"" /\ backslash_count % 2 = 0
                   THEN ~in_quote ELSE in_quote
    /\ backslash_count' = IF ch = "\\" THEN backslash_count + 1 ELSE 0
    /\ formatted' = CopyChar(formatted, ch)
    /\ column' = column + 1
    /\ has_inserted_space' = FALSE
    /\ last_non_whitespace' = IF is_whitespace(ch) THEN last_non_whitespace ELSE ch
    /\ cursor' = NextCursor
    /\ UNCHANGED <<list_depth, in_multi_line_list, in_xy, in_short_form, short_form_depth>>
    /\ callerUnchanged

\* lines 112, 213-215: the loop ends, the trailing newline is appended and
\* the text is returned
Return ==
    /\ fpc = "scan" /\ cursor >= Len(source)
    /\ formatted' = Append(formatted, "\n")
    /\ fpc' = "returned"
    /\ IF pass = 1
       THEN result1' = formatted' /\ UNCHANGED result2
       ELSE result2' = formatted' /\ UNCHANGED result1
    /\ UNCHANGED <<source, compact_save, cursor, list_depth, last_non_whitespace,
                   in_quote, has_inserted_space, in_multi_line_list, in_xy,
                   in_short_form, short_form_depth, column, backslash_count,
                   pass, source0, parseVars, itemVars>>

\* the caller formats the returned text again with the same flag
\* (tests/testfunctions.py: a saved file is loaded and saved again)
Reformat ==
    /\ fpc = "returned" /\ pass = 1
    /\ FmtStart(result1)
    /\ pass' = 2
    /\ UNCHANGED <<compact_save, source0, result1, result2, parseVars, itemVars>>

FmtDone ==
    /\ fpc = "returned" /\ pass = 2
    /\ fpc' = "done"
    /\ UNCHANGED <<source, compact_save, formatted, cursor, list_depth,
                   last_non_whitespace, in_quote, has_inserted_space,
                   in_multi_line_list, in_xy, in_short_form, short_form_depth,
                   column, backslash_count, pass, source0, result1, result2,
                   parseVars, itemVars>>

\* no sexp_prettify call is in progress
FmtIdle ==
    /\ source = <<>> /\ compact_save = FALSE /\ formatted = <<>> /\ cursor = 0
    /\ list_depth = 0 /\ last_non_whitespace = NoChar /\ in_quote = FALSE
    /\ has_inserted_space = FALSE /\ in_multi_line_list = FALSE
    /\ in_xy = FALSE /\ in_short_form = FALSE /\ short_form_depth = 0
    /\ column = 0 /\ backslash_count = 0 /\ fpc = "idle" /\ pass = 0
    /\ source0 = <<>> /\ result1 = None /\ result2 = None

(***************************************************************************)
(* Properties of the formatter                                             *)
(***************************************************************************)
\* Syntactically valid list-text: parentheses outside quoted strings balance
\* and every quoted string is closed. A quote is escaped by an odd run of
\* backslashes before it; with lax, whitespace and parentheses outside a
\* quoted string do not end such a run.
RECURSIVE ValidFrom(_, _, _, _, _, _)
ValidFrom(s, i, depth, inq, bs, lax) ==
    IF i > Len(s) THEN depth = 0 /\ ~inq
    ELSE LET c == s[i]
             keep == IF lax THEN bs ELSE 0
         IN  IF c = "\\" THEN ValidFrom(s, i + 1, depth, inq, bs + 1, lax)
             ELSE IF c = "\"" /\ bs % 2 = 0 THEN ValidFrom(s, i + 1, depth, ~inq, 0, lax)
             ELSE IF inq THEN ValidFrom(s, i + 1, depth, inq, 0, lax)
             ELSE IF c = "(" THEN ValidFrom(s, i + 1, depth + 1, inq, keep, lax)
             ELSE IF c = ")" THEN depth > 0 /\ ValidFrom(s, i + 1, depth - 1, inq, keep, lax)
             ELSE IF is_whitespace(c) THEN ValidFrom(s, i + 1, depth, inq, keep, lax)
             ELSE ValidFrom(s, i + 1, depth, inq, 0, lax)

CountIn(s, c, i, j) == Cardinality({ k \in i..j : s[k] = c })

\* a text without quotes and backslashes: no prefix closes more lists than
\* it opens, and the whole text closes as many as it opens
PlainBalanced(s) ==
    /\ \A j \in 1..Len(s) : CountIn(s, ")", 1, j) <= CountIn(s, "(", 1, j)
    /\ CountIn(s, ")", 1, Len(s)) = CountIn(s, "(", 1, Len(s))

\* valid under either reading of a backslash run
ValidText(s) ==
    IF \A i \in 1..Len(s) : s[i] \notin {"\"", "\\"}
    THEN PlainBalanced(s)
    ELSE ValidFrom(s, 1, 0, FALSE, 0, FALSE) /\ ValidFrom(s, 1, 0, FALSE, 0, TRUE)

\* C1: formatting a formatted text again changes nothing:
\* sexp_prettify(sexp_prettify(s, c), c) = sexp_prettify(s, c) for every
\* syntactically valid s and each flag c.
C1_Idempotent ==
    (fpc = "done" /\ ValidText(source0)) => result2 = result1

\* the layout the claim describes: head on line 1, one child list per line
\* behind one tab, the root's close paren alone on the last line
RECURSIVE KidLines(_)
KidLines(kids) ==
    IF kids = <<>> THEN <<>>
    ELSE <<"\n", "\t">> \o Head(kids) \o KidLines(Tail(kids))

LinePerKid(head, kids) ==
    <<"(">> \o head \o KidLines(kids) \o <<"\n", ")", "\n">>

BoardFormatted ==
    <<"(", "b", "o", "a", "r", "d", "\n",
      "\t", "(", "l", "a", "y", "e", "r", " ", "1", " ", "F", ".", "C", "u",
      " ", "s", "i", "g", "n", "a", "l", ")", "\n",
      "\t", "(", "t", "h", "i", "c", "k", "n", "e", "s", "s", " ", "1", ".",
      "6", ")", "\n",
      ")", "\n">>

\* no xy list comes directly after the opening of another list headed by xy
\* (the child before it, or the root itself)
NoXyPair(h, kids) ==
    \A i \in 1..Len(kids) :
        kids[i] = XyLeaf => IF i = 1 THEN h # <<"x", "y">> ELSE kids[i - 1] # XyLeaf

\* C2 as stated: with compact off every root list of short leaf lists is
\* laid out one child list per line.
C2_LinePerKidAlways ==
    \A h \in Heads, kids \in KidSeqs :
        (result1 # None /\ ~compact_save /\ source0 = RootOf(h, kids))
            => result1 = LinePerKid(h, kids)

\* C2 (amended): with compact off the board text formats to exactly the
\* stated layout, and every root list of short leaf lists in which no xy
\* list directly follows the opening of another list headed by xy is laid
\* out one child list per line.
C2_LinePerKid ==
    /\ (result1 # None /\ ~compact_save /\ source0 = Texts.Board)
            => result1 = BoardFormatted
    /\ \A h \in Heads, kids \in KidSeqs :
        (result1 # None /\ ~compact_save /\ source0 = RootOf(h, kids) /\ NoXyPair(h, kids))
            => result1 = LinePerKid(h, kids)

C2_Witness ==
    /\ fpc = "returned" /\ pass = 1 /\ ~compact_save
    /\ source0 = Texts.Board /\ result1 = BoardFormatted

(***************************************************************************)
(* Properties of the layout                                                *)
(***************************************************************************)
\* what the step appends to the output
Emitted == SubSeq(formatted', Len(formatted) + 1, Len(formatted'))

\* a step of the scan loop on the character ch
ScanStep == fpc = "scan" /\ cursor < Len(source) /\ cursor' # cursor

NoQuotes(s) == \A i \in 1..Len(s) : s[i] # "\""

TabsOf(n) == [i \in 1..n |-> "\t"]

\* the list opened at index i of s (1-based, s without quotes) is not
\* closed before index k
StillOpen(s, i, k) ==
    \A j \in (i + 1)..(k - 1) : CountIn(s, ")", i + 1, j) <= CountIn(s, "(", i + 1, j)

\* the head token of the list opened at index i: up to the next whitespace
\* or parenthesis
RECURSIVE HeadToken(_, _)
HeadToken(s, i) ==
    IF i + 1 > Len(s) \/ s[i + 1] \in {"(", ")", " ", "\t", "\n", "\r"} THEN <<>>
    ELSE <<s[i + 1]>> \o HeadToken(s, i + 1)

\* the character at cursor lies behind the open paren of a list headed by a
\* short-form keyword and not behind its close paren
InShortList ==
    \E i \in 1..cursor :
        /\ source[i] = "("
        /\ HeadToken(source, i) \in ShortFormTokens
        /\ StillOpen(source, i, cursor + 1)

\* C11: with compact on, no newline is emitted between the open paren of a
\* list headed by a short-form keyword and its close paren (the close paren
\* included), whatever the list holds.
C11_ShortFormOneLine ==
    [][(ScanStep /\ compact_save /\ ValidText(source) /\ NoQuotes(source) /\ InShortList)
            => \A i \in 1..Len(Emitted) : Emitted[i] # "\n"]_vars

\* C12: with compact off the short-form context is never active, and every
\* open paren that is neither the first character of the output nor an
\* inline xy list (an xy list opened in the xy context below column 99)
\* starts a new line behind list_depth tabs.
C12_CompactOffWraps ==
    /\ [](~compact_save => ~in_short_form)
    /\ [][(ScanStep /\ ~compact_save /\ ch = "(" /\ ~in_quote /\ formatted # <<>>
            /\ ~(in_xy /\ detect_xy(source, cursor) /\ column < 99))
            => Emitted = <<"\n">> \o TabsOf(list_depth) \o <<"(">>]_vars

\* the stroke list of Texts.Stroke has been formatted with compact off
C12_Witness ==
    /\ source0 = Texts.Stroke /\ ~compact_save /\ pass = 1 /\ fpc = "returned"
    /\ \E i \in 1..(Len(result1) - 3) :
        SubSeq(result1, i, i + 3) = <<"\n", "\t", "\t", "(">>

\* the output column: characters written since the last newline
LastNewline(f) ==
    CHOOSE i \in 0..Len(f) :
        /\ i = 0 \/ f[i] = "\n"
        /\ \A j \in (i + 1)..Len(f) : f[j] # "\n"
OutputColumn(f) == Len(f) - LastNewline(f)

NewlineForm(depth, c) == <<"\n">> \o TabsOf(depth) \o <<c>>

\* the list opening at offset c follows a sibling (xy a b) list: that list
\* opens at p, closes at q, and only whitespace lies between q and c
AfterXySibling(s, c) ==
    \E p \in 1..c : \E q \in (p + 1)..c :
        /\ s[p] = "(" /\ detect_xy(s, p - 1)
        /\ s[q] = ")"
        /\ \A j \in (p + 1)..(q - 1) : s[j] \notin {"(", ")"}
        /\ \A j \in (q + 1)..c : is_whitespace(s[j])

\* the list opening at offset c is the first list inside its parent, which
\* opens at p
FirstInParent(s, c, p) ==
    /\ s[p] = "("
    /\ \A j \in (p + 1)..c : s[j] \notin {"(", ")"}

XyOpens ==
    /\ ScanStep /\ NoQuotes(source) /\ ch = "(" /\ detect_xy(source, cursor)

\* C13 as stated: in any list the first xy child starts a new line, and a
\* following xy child is written as " (" exactly when the output column is
\* below 99, otherwise on a new line indented with list_depth tabs.
C13_XyInlineAlways ==
    [][XyOpens =>
        /\ (\E p \in 1..cursor : FirstInParent(source, cursor, p))
              => Emitted = NewlineForm(list_depth, "(")
        /\ AfterXySibling(source, cursor)
              => Emitted = IF OutputColumn(formatted) < 99
                           THEN <<" ", "(">>
                           ELSE NewlineForm(list_depth, "(")]_vars

\* C13: in a list that is not itself headed by xy, outside an open
\* short-form list of a compact call, the first xy child starts a new line,
\* and a following xy child is written as " (" exactly when the output
\* column is below 99, otherwise on a new line indented with list_depth tabs
\* (after which the next xy child is inlined again).
C13_XyInline ==
    [][(XyOpens /\ ~(compact_save /\ InShortList)) =>
        /\ (\E p \in 1..cursor :
                FirstInParent(source, cursor, p) /\ ~detect_xy(source, p - 1))
              => Emitted = NewlineForm(list_depth, "(")
        /\ AfterXySibling(source, cursor)
              => Emitted = IF OutputColumn(formatted) < 99
                           THEN <<" ", "(">>
                           ELSE NewlineForm(list_depth, "(")]_vars

\* the twelfth xy list of Texts.Pts has just been wrapped to a new line
C13_Witness ==
    /\ source = Texts.Pts /\ fpc = "scan" /\ cursor > 0
    /\ source[cursor] = "(" /\ detect_xy(source, cursor - 1)
    /\ AfterXySibling(source, cursor - 1)
    /\ Len(formatted) > 100
    /\ SubSeq(formatted, Len(formatted) - 2, Len(formatted)) = <<"\n", "\t", "(">>
    /\ OutputColumn(SubSeq(formatted, 1, Len(formatted) - 3)) = 99

\* a whitespace character outside quotes inside a list is being read
SepStep == ScanStep /\ is_whitespace(ch) /\ ~in_quote /\ list_depth > 0

\* it is the first character of its run of whitespace
FirstOfRun == cursor > 0 /\ ~is_whitespace(source[cursor])

\* the run lies between two tokens: what precedes it does not open a list
\* and what follows it is neither a paren nor the end of the text
BetweenTokens ==
    /\ FirstOfRun /\ source[cursor] # "("
    /\ \E k \in (cursor + 2)..Len(source) :
          /\ \A j \in (cursor + 1)..(k - 1) : is_whitespace(source[j])
          /\ ~is_whitespace(source[k]) /\ source[k] \notin {"(", ")"}

\* C14: a run of whitespace outside quotes between two tokens of a list
\* yields a single separator: one space if the xy context is active, the
\* tracked column is below 72 or the short-form context is active; otherwise
\* a newline and list_depth tabs, with the column set to list_depth and the
\* multi-line marker set. The rest of the run emits nothing.
C14_SeparatorRule ==
    /\ [][(SepStep /\ BetweenTokens) =>
            IF in_xy \/ column < 72 \/ in_short_form
            THEN /\ Emitted = <<" ">>
                 /\ column' = column + 1
                 /\ in_multi_line_list' = in_multi_line_list
            ELSE /\ Emitted = <<"\n">> \o TabsOf(list_depth)
                 /\ column' = list_depth
                 /\ in_multi_line_list']_vars
    /\ [][(SepStep /\ ~FirstOfRun) => Emitted = <<>>]_vars

\* a token of Texts.LongTokens has just been wrapped at a column of 72 or more
C14_Witness ==
    /\ source = Texts.LongTokens /\ fpc = "scan" /\ cursor > 0
    /\ is_whitespace(source[cursor]) /\ ~in_xy /\ ~in_short_form
    /\ in_multi_line_list /\ column = list_depth
    /\ formatted # <<>> /\ formatted[Len(formatted)] = "\t"
    /\ OutputColumn(SubSeq(formatted, 1, Len(formatted) - 2)) >= 72

\* a space has been written at a column of 72 or more in the short-form
\* context
C14_ShortSpaceSeen ==
    /\ fpc = "scan" /\ cursor > 0 /\ is_whitespace(source[cursor])
    /\ in_short_form /\ ~in_xy /\ column > 72
    /\ formatted # <<>> /\ formatted[Len(formatted)] = " "

\* a space has been written at a column of 72 or more in the xy context
C14_XySpaceSeen ==
    /\ fpc = "scan" /\ cursor > 0 /\ is_whitespace(source[cursor])
    /\ in_xy /\ ~in_short_form /\ column > 72
    /\ formatted # <<>> /\ formatted[Len(formatted)] = " "

\* the close paren being read closes a list without inner lists, opened at p
ClosesLeaf(p) ==
    /\ source[p] = "("
    /\ \A j \in (p + 1)..cursor : source[j] \notin {"(", ")"}

\* nothing has been wrapped since the last open paren was written
NoWrapSinceOpen ==
    \E i \in 1..Len(formatted) :
        /\ formatted[i] = "("
        /\ \A j \in (i + 1)..Len(formatted) : formatted[j] \notin {"(", "\n"}

\* C15: outside short form, a list that has no inner list and whose own
\* tokens never wrapped has its close paren on the same line as its last
\* token (the new-line placement is for lists that follow a ')' or that
\* wrapped themselves).
C15_LeafClosesInline ==
    [][(ScanStep /\ NoQuotes(source) /\ ValidText(source) /\ ch = ")"
            /\ ~(compact_save /\ InShortList)
            /\ (\E p \in 1..cursor : ClosesLeaf(p)) /\ NoWrapSinceOpen)
          => Emitted = <<")">>]_vars

C16_NewlineInputSeen ==
    /\ fpc = "returned" /\ pass = 2 /\ ValidText(source) /\ Len(source) > 1
    /\ source[Len(source)] = "\n"

\* the number of backslashes that end at position c of s without a gap
BackslashRun(s, c) ==
    CHOOSE n \in 0..c :
        /\ \A j \in (c - n + 1)..c : s[j] = "\\"
        /\ n = c \/ s[c - n] # "\\"

\* C17: at every double quote of the input the in-quote flag is toggled
\* exactly when the number of backslashes that immediately precede the
\* quote is even; backslashes separated from it by another character do
\* not count.
C17_QuoteToggle ==
    [][(ScanStep /\ ch = "\"") =>
          ((in_quote' # in_quote) <=> (BackslashRun(source, cursor) % 2 = 0))]_vars

C19_DirtyReturnSeen ==
    /\ fpc = "returned" /\ pass = 1
    /\ in_xy /\ column > 0 /\ last_non_whitespace = ")"

\* C20: for every input whose parentheses balance the call ends: the
\* cursor starts at 0, goes up by exactly one at every step of the scan and
\* never passes the length of the text, every offset the step and its
\* look-ahead helpers read lies inside the text, and the call returns with
\* the cursor at the end of the text.
C20_Totality ==
    /\ [](fpc = "scan" => cursor \in 0..Len(source))
    /\ [][(fpc = "scan" /\ cursor < Len(source)) => cursor' = cursor + 1]_vars
    /\ []((fpc = "scan" /\ cursor < Len(source))
            => \A i \in LookAheadReads : 0 <= i /\ i < Len(source))
    /\ ValidText(source0)
        => <>(pass = 1 /\ fpc = "returned" /\ cursor = Len(source)
                /\ result1 = formatted)

\* the call on the board text has returned with every character read
C20_Witness ==
    /\ pass = 1 /\ fpc = "returned" /\ source = Texts.Board
    /\ ValidText(source) /\ cursor = Len(source) /\ result1 = formatted

\* C23: with the compact flag on, a list starts a short-form context if and
\* only if its head token, taken up to the next whitespace or parenthesis,
\* is one of the keywords; a head that only begins with a keyword does not.
C23_WholeHeadToken ==
    [][(ScanStep /\ NoQuotes(source) /\ compact_save /\ ch = "("
            /\ ~in_short_form)
          => (in_short_form' <=> HeadToken(source, cursor + 1) \in ShortFormTokens)]_vars

\* a balanced text without quoted strings is being formatted
Unquoted == NoQuotes(source) /\ ValidText(source)

\* somewhere in the output a character a is directly followed by one of B
Adjacent(a, B) ==
    \E i \in 1..(Len(formatted) - 1) : formatted[i] = a /\ formatted[i + 1] \in B

\* the lists that are open before the character at the cursor
OpenLists == CountIn(source, "(", 1, cursor) - CountIn(source, ")", 1, cursor)

\* a whitespace character of the input is read after another one
LaterOfRun == ScanStep /\ is_whitespace(ch) /\ cursor > 0 /\ is_whitespace(source[cursor])

\* C24 as stated: a run of input whitespace yields at most one separator,
\* no open paren is directly followed by whitespace, no close paren is
\* directly preceded by a space, a space is never next to a space or a
\* newline, and no whitespace is emitted at nesting depth 0.
C24_HygieneAlways ==
    /\ [][(Unquoted /\ LaterOfRun) => Emitted = <<>>]_vars
    /\ [](Unquoted => ~Adjacent("(", {" ", "\t", "\n", "\r"}))
    /\ [](Unquoted => ~Adjacent(" ", {")"}))
    /\ [](Unquoted => ~Adjacent(" ", {" ", "\n"}) /\ ~Adjacent("\n", {" "}))
    /\ [][(Unquoted /\ ScanStep /\ OpenLists = 0)
            => \A i \in 1..Len(Emitted) : ~is_whitespace(Emitted[i])]_vars

\* C24: for a balanced input, outside quoted strings, a run of input
\* whitespace yields at most one separator; input whitespace yields no
\* separator at nesting depth 0, directly after an open paren or directly
\* before a paren (the whitespace the output has in those places is the
\* new line or the " (" that an open paren brings with it); no close paren
\* is directly preceded by a space; a space is never next to a space or a
\* newline.
C24_Hygiene ==
    /\ [][(Unquoted /\ LaterOfRun) => Emitted = <<>>]_vars
    /\ [][(Unquoted /\ ScanStep /\ is_whitespace(ch) /\ Emitted # <<>>)
            => /\ OpenLists > 0
               /\ formatted # <<>> /\ formatted[Len(formatted)] # "("
               /\ \E k \in (cursor + 2)..Len(source) :
                     /\ \A j \in (cursor + 1)..(k - 1) : is_whitespace(source[j])
                     /\ ~is_whitespace(source[k]) /\ source[k] \notin {"(", ")"}]_vars
    /\ [](Unquoted => ~Adjacent(" ", {")"}))
    /\ [](Unquoted => ~Adjacent(" ", {" ", "\n"}) /\ ~Adjacent("\n", {" "}))

\* a text with whitespace in all these places has been formatted
C24_Witness ==
    /\ fpc = "returned" /\ pass = 1 /\ source = Texts.Hygiene
    /\ formatted = <<"(", "a", " ", "b", "\n", "\t", "(", "c", ")", "\n", ")", "\n">>

\* a text without its spaces, tabs, carriage returns and newlines
Squeeze(s) == SelectSeq(s, LAMBDA c : c \notin {" ", "\t", "\r", "\n"})

\* C27: for every input and either flag the output without its whitespace
\* is the input without its whitespace: at every point of the scan for the
\* part of the input read so far, and for the whole input at the return.
C27_TextPreserved ==
    /\ fpc = "scan" => Squeeze(formatted) = Squeeze(SubSeq(source, 1, cursor))
    /\ fpc = "returned" => Squeeze(formatted) = Squeeze(source)

\* an unbalanced text with a backslash, a quote and whitespace has been
\* formatted
C27_Witness ==
    /\ fpc = "returned" /\ pass = 1
    /\ source = <<"\\", " ", "\"", ")">>
    /\ Squeeze(formatted) = <<"\\", "\"", ")">>
\* the step writes a newline of its own (not one copied inside quotes)
EmitsNewline ==
    /\ Emitted # <<>> /\ Emitted[1] = "\n"
    /\ ~(fpc = "scan" /\ cursor < Len(source) /\ in_quote)

\* the nesting depth that counts for the step: after the decrement for a
\* close paren, before the increment for an open paren
DepthThen == IF fpc = "scan" /\ cursor < Len(source) /\ ch = ")"
             THEN list_depth' ELSE list_depth

\* what the step writes is a newline, exactly n tabs, and then no whitespace
IndentedBy(n) ==
    /\ Len(Emitted) >= n + 1
    /\ SubSeq(Emitted, 1, n + 1) = <<"\n">> \o TabsOf(n)
    /\ \A i \in (n + 2)..Len(Emitted) : ~is_whitespace(Emitted[i])

\* in the text f the open paren at i is closed by the close paren at j
Matching(f, i, j) ==
    /\ i < j /\ f[i] = "(" /\ f[j] = ")"
    /\ CountIn(f, "(", i, j) = CountIn(f, ")", i, j)
    /\ \A k \in i..(j - 1) : CountIn(f, "(", i, k) > CountIn(f, ")", i, k)

\* the character at i of f begins a line that is indented by n tabs
BeginsLine(f, i, n) ==
    /\ i - n - 1 >= 1 /\ f[i - n - 1] = "\n"
    /\ \A k \in (i - n)..(i - 1) : f[k] = "\t"

\* matching parens that both begin a line have the same indentation
SameIndentation(f) ==
    \A i \in 1..Len(f) : \A j \in (i + 1)..Len(f) :
        Matching(f, i, j) =>
            \A n \in 0..i : \A m \in 0..j :
                (BeginsLine(f, i, n) /\ BeginsLine(f, j, m)) => n = m

\* C28 as stated: every newline the formatter emits is followed by exactly
\* as many tabs as the nesting depth at that point, the depth never goes
\* below 0, and matching parens that both begin a line are indented alike.
C28_IndentAlways ==
    /\ [](list_depth >= 0)
    /\ [][EmitsNewline => IndentedBy(DepthThen)]_vars
    /\ []((fpc = "returned" /\ Unquoted) => SameIndentation(formatted))

\* C28: every newline the formatter emits while it scans the input (every
\* newline but the one that ends the output) is followed by exactly as many
\* tabs as the nesting depth at that point, the depth never goes below 0,
\* and matching parens that both begin a line are indented alike.
C28_Indent ==
    /\ [](list_depth >= 0)
    /\ [][(EmitsNewline /\ cursor < Len(source)) => IndentedBy(DepthThen)]_vars
    /\ []((fpc = "returned" /\ Unquoted) => SameIndentation(formatted))

\* the stroke list of Texts.NestedShort has been laid out with its open and
\* its close paren each beginning a line with one tab
C28_Witness ==
    /\ fpc = "returned" /\ pass = 1 /\ ~compact_save /\ source = Texts.NestedShort
    /\ \E i \in 1..Len(formatted) : \E j \in (i + 1)..Len(formatted) :
          /\ Matching(formatted, i, j)
          /\ BeginsLine(formatted, i, 1) /\ BeginsLine(formatted, j, 1)
(***************************************************************************)
(* term_regex: the token that re.finditer finds from a position.           *)
(* Positions are 0-based offsets as in Python; text[i] is s[i + 1].        *)
(***************************************************************************)
Digits == {"0", "1", "2", "3", "4", "5", "6", "7", "8", "9"}

\* \s of the pattern, on the characters of the model
IsSpace(c) == c \in {" ", "\t", "\n", "\r"}

At(s, i) == IF i >= 0 /\ i < Len(s) THEN s[i + 1] ELSE NUL

\* text[i:j]
Slice(s, i, j) == IF j <= i THEN <<>> ELSE SubSeq(s, i + 1, j)

\* end of the maximal run of digits starting at i (i itself when there is none)
RECURSIVE DigitsEnd(_, _)
DigitsEnd(s, i) == IF At(s, i) \in Digits THEN DigitsEnd(s, i + 1) ELSE i

\* the look-ahead (?=[\ \)]) of the num group
NumFollow(s, i) == At(s, i) \in {" ", ")"}

\* [+-]?\d+\.\d+(?=[\ \)]) at w: the end of the match, -1 when it fails
FracEnd(s, w) ==
    LET a == IF At(s, w) \in {"+", "-"} THEN w + 1 ELSE w
        b == DigitsEnd(s, a)
        c == DigitsEnd(s, b + 1)
    IN  IF b > a /\ At(s, b) = "." /\ c > b + 1 /\ NumFollow(s, c) THEN c ELSE -1

\* \-?\d+(?=[\ \)]) at w
IntEnd(s, w) ==
    LET a == IF At(s, w) = "-" THEN w + 1 ELSE w
        b == DigitsEnd(s, a)
    IN  IF b > a /\ NumFollow(s, b) THEN b ELSE -1

\* the num group: the first alternative that matches
NumEnd(s, w) == IF FracEnd(s, w) # -1 THEN FracEnd(s, w) ELSE IntEnd(s, w)

\* (?:[^"]|(?<=\\)")* from i, greedy: the end of the longest run
RECURSIVE SqBodyEnd(_, _)
SqBodyEnd(s, i) ==
    IF i < Len(s) /\ (At(s, i) # "\"" \/ At(s, i - 1) = "\\")
    THEN SqBodyEnd(s, i + 1)
    ELSE i

\* the closing quote with its look-ahead (?=\))|(?=\s)
SqCloseAt(s, i) ==
    At(s, i) = "\"" /\ (At(s, i + 1) = ")" \/ IsSpace(At(s, i + 1)))

\* the sq group at w: the body gives characters back one at a time until
\* the closing quote and its look-ahead match
SqEnd(s, w) ==
    IF At(s, w) # "\"" THEN -1
    ELSE LET ends == { i \in (w + 1)..SqBodyEnd(s, w + 1) : SqCloseAt(s, i) }
         IN  IF ends = {} THEN -1
             ELSE (CHOOSE i \in ends : \A j \in ends : j <= i) + 1

\* [^(^)\s]
IsSymChar(c) == c # NUL /\ c \notin {"(", "^", ")"} /\ ~IsSpace(c)

RECURSIVE SymEnd(_, _)
SymEnd(s, i) == IF IsSymChar(At(s, i)) THEN SymEnd(s, i + 1) ELSE i

\* the alternation at w, in the order of the pattern
TokenAt(s, w) ==
    IF At(s, w) = "(" THEN [term |-> "brackl", start |-> w, end |-> w + 1]
    ELSE IF At(s, w) = ")" THEN [term |-> "brackr", start |-> w, end |-> w + 1]
    ELSE IF NumEnd(s, w) # -1 THEN [term |-> "num", start |-> w, end |-> NumEnd(s, w)]
    ELSE IF SqEnd(s, w) # -1 THEN [term |-> "sq", start |-> w, end |-> SqEnd(s, w)]
    ELSE IF SymEnd(s, w) > w THEN [term |-> "s", start |-> w, end |-> SymEnd(s, w)]
    ELSE [term |-> "none", start |-> w, end |-> w]

\* \s* of the pattern
RECURSIVE SkipSpace(_, _)
SkipSpace(s, i) == IF IsSpace(At(s, i)) THEN SkipSpace(s, i + 1) ELSE i

\* re.finditer: the leftmost match that starts at or after p; a start
\* position where the pattern does not match is passed over
RECURSIVE NextToken(_, _)
NextToken(s, p) ==
    IF p >= Len(s) THEN [term |-> "none", start |-> p, end |-> p]
    ELSE LET t == TokenAt(s, SkipSpace(s, p))
         IN  IF t.term # "none" THEN t ELSE NextToken(s, p + 1)

(***************************************************************************)
(* The tree parse_sexp builds: Python int, float, str and list values.     *)
(* A float is the decimal n / 10^e with e > 0 and n not a multiple of 10.  *)
(***************************************************************************)
IntNode(n) == [k |-> "int", n |-> n, e |-> 0, s |-> <<>>, c |-> <<>>]
FloatNode(n, e) == [k |-> "float", n |-> n, e |-> e, s |-> <<>>, c |-> <<>>]
StrNode(s) == [k |-> "str", n |-> 0, e |-> 0, s |-> s, c |-> <<>>]
ListNode(c) == [k |-> "list", n |-> 0, e |-> 0, s |-> <<>>, c |-> c]

DigitVal(c) ==
    CASE c = "0" -> 0 [] c = "1" -> 1 [] c = "2" -> 2 [] c = "3" -> 3
      [] c = "4" -> 4 [] c = "5" -> 5 [] c = "6" -> 6 [] c = "7" -> 7
      [] c = "8" -> 8 [] c = "9" -> 9

RECURSIVE DigitsVal(_)
DigitsVal(d) ==
    IF d = <<>> THEN 0
    ELSE 10 * DigitsVal(SubSeq(d, 1, Len(d) - 1)) + DigitVal(d[Len(d)])

RECURSIVE StripZeros(_)
StripZeros(d) ==
    IF d # <<>> /\ d[Len(d)] = "0" THEN StripZeros(SubSeq(d, 1, Len(d) - 1)) ELSE d

\* the conversion without the coercion of an integral float to int
NumValueMut(value) ==
    LET sign == IF value[1] = "-" THEN -1 ELSE 1
        body == IF value[1] \in {"+", "-"} THEN Tail(value) ELSE value
        dots == { i \in 1..Len(body) : body[i] = "." }
        dot == IF dots = {} THEN Len(body) + 1 ELSE CHOOSE i \in dots : TRUE
        fp == StripZeros(SubSeq(body, dot + 1, Len(body)))
    IN  FloatNode(sign * DigitsVal(SubSeq(body, 1, dot - 1) \o fp), Len(fp))

\* lines 33-34: v = float(value); if v.is_integer(): v = int(v)
NumValue(value) ==
    LET signed == value[1] \in {"+", "-"}
        sign == IF value[1] = "-" THEN -1 ELSE 1
        body == IF signed THEN Tail(value) ELSE value
        dots == { i \in 1..Len(body) : body[i] = "." }
        dot == IF dots = {} THEN Len(body) + 1 ELSE CHOOSE i \in dots : TRUE
        ip == SubSeq(body, 1, dot - 1)
        fp == StripZeros(SubSeq(body, dot + 1, Len(body)))
    IN  IF fp = <<>> THEN IntNode(sign * DigitsVal(ip))
        ELSE FloatNode(sign * DigitsVal(ip \o fp), Len(fp))

\* str.replace(r'\"', '"')
RECURSIVE Unescape(_)
Unescape(t) ==
    IF t = <<>> THEN <<>>
    ELSE IF Len(t) >= 2 /\ t[1] = "\\" /\ t[2] = "\"" THEN <<"\"">> \o Unescape(SubSeq(t, 3, Len(t)))
    ELSE <<t[1]>> \o Unescape(Tail(t))

\* the content without the replacement of the escaped quotes
SqValueMut(value) == SubSeq(value, 2, Len(value) - 1)

\* line 37: value[1:-1].replace(r'\"', '"')
SqValue(value) == Unescape(SubSeq(value, 2, Len(value) - 1))

(***************************************************************************)
(* parse_sexp                                                              *)
(***************************************************************************)
\* line 29: assert stack
AssertOpenList(stk) == stk # <<>>

\* line 42: assert not stack
AssertNoOpenListMut(stk) == TRUE
AssertNoOpenList(stk) == stk = <<>>

tok == NextToken(sexp, pos)
value == Slice(sexp, tok.start, tok.end)
parseCallerUnchanged == UNCHANGED <<sexp, round, sexp0, tree1, fmtVars, itemVars>>

\* lines 25-27
BrackL ==
    /\ ppc = "scan" /\ tok.term = "brackl"
    /\ stack' = Append(stack, out)
    /\ out' = <<>>
    /\ pos' = tok.end
    /\ UNCHANGED <<ppc, tree>>
    /\ parseCallerUnchanged

\* the finished list spliced into its parent instead of nested in it
CloseListMut(parent, finished) == parent \o finished
\* lines 30-31: out.append(tmpout), out being the popped parent
CloseList(parent, finished) == Append(parent, ListNode(finished))

\* lines 28-31
BrackR ==
    /\ ppc = "scan" /\ tok.term = "brackr"
    /\ IF ~AssertOpenList(stack)
       THEN /\ ppc' = "AssertionError"
            /\ UNCHANGED <<stack, out, pos>>
       ELSE /\ out' = CloseList(stack[Len(stack)], out)
            /\ stack' = SubSeq(stack, 1, Len(stack) - 1)
            /\ pos' = tok.end
            /\ UNCHANGED ppc
    /\ UNCHANGED tree
    /\ parseCallerUnchanged

\* lines 32-35
Num ==
    /\ ppc = "scan" /\ tok.term = "num"
    /\ out' = Append(out, NumValue(value))
    /\ pos' = tok.end
    /\ UNCHANGED <<stack, ppc, tree>>
    /\ parseCallerUnchanged

\* lines 36-37
Sq ==
    /\ ppc = "scan" /\ tok.term = "sq"
    /\ out' = Append(out, StrNode(SqValue(value)))
    /\ pos' = tok.end
    /\ UNCHANGED <<stack, ppc, tree>>
    /\ parseCallerUnchanged

\* lines 38-39
Sym ==
    /\ ppc = "scan" /\ tok.term = "s"
    /\ out' = Append(out, StrNode(value))
    /\ pos' = tok.end
    /\ UNCHANGED <<stack, ppc, tree>>
    /\ parseCallerUnchanged

\* lines 42-43: no match is left
ParseEnd ==
    /\ ppc = "scan" /\ tok.term = "none"
    /\ pos' = Len(sexp)
    /\ IF ~AssertNoOpenList(stack)
       THEN ppc' = "AssertionError" /\ UNCHANGED <<tree, tree1>>
       ELSE IF out = <<>>
       THEN ppc' = "IndexError" /\ UNCHANGED <<tree, tree1>>
       ELSE /\ ppc' = "returned"
            /\ tree' = out[1]
            /\ tree1' = IF round = 1 THEN out[1] ELSE tree1
    /\ UNCHANGED <<stack, out, sexp, round, sexp0, fmtVars, itemVars>>

(***************************************************************************)
(* The trivial unparser of the round-trip property: a list is "(" + its    *)
(* elements separated by one space + ")", a number is its decimal text, a  *)
(* string is its text, quoted and escaped unless it is a bare symbol.      *)
(***************************************************************************)
DigitChar(d) ==
    CASE d = 0 -> "0" [] d = 1 -> "1" [] d = 2 -> "2" [] d = 3 -> "3"
      [] d = 4 -> "4" [] d = 5 -> "5" [] d = 6 -> "6" [] d = 7 -> "7"
      [] d = 8 -> "8" [] d = 9 -> "9"

RECURSIVE NatText(_)
NatText(n) == IF n < 10 THEN <<DigitChar(n)>> ELSE NatText(n \div 10) \o <<DigitChar(n % 10)>>

RECURSIVE Pow10(_)
Pow10(e) == IF e = 0 THEN 1 ELSE 10 * Pow10(e - 1)

RECURSIVE PadLeft(_, _)
PadLeft(d, w) == IF Len(d) >= w THEN d ELSE PadLeft(<<"0">> \o d, w)

Abs(n) == IF n < 0 THEN -n ELSE n

IntText(n) == (IF n < 0 THEN <<"-">> ELSE <<>>) \o NatText(Abs(n))

FloatText(n, e) ==
    (IF n < 0 THEN <<"-">> ELSE <<>>)
        \o NatText(Abs(n) \div Pow10(e)) \o <<".">> \o PadLeft(NatText(Abs(n) % Pow10(e)), e)

\* a text that, standing alone before a delimiter, is lexed as one symbol
IsBareSymbol(t) ==
    LET first == TokenAt(Append(t, ")"), 0)
    IN  t # <<>> /\ first.term = "s" /\ first.end = Len(t)

RECURSIVE Escape(_)
Escape(t) ==
    IF t = <<>> THEN <<>>
    ELSE (IF t[1] = "\"" THEN <<"\\", "\"">> ELSE <<t[1]>>) \o Escape(Tail(t))

RECURSIVE Unparse(_)
RECURSIVE UnparseAll(_)
Unparse(node) ==
    CASE node.k = "int" -> IntText(node.n)
      [] node.k = "float" -> FloatText(node.n, node.e)
      [] node.k = "str" ->
            IF IsBareSymbol(node.s) THEN node.s
            ELSE <<"\"">> \o Escape(node.s) \o <<"\"">>
      [] node.k = "list" -> <<"(">> \o UnparseAll(node.c) \o <<")">>

UnparseAll(nodes) ==
    IF nodes = <<>> THEN <<>>
    ELSE IF Len(nodes) = 1 THEN Unparse(nodes[1])
    ELSE Unparse(nodes[1]) \o <<" ">> \o UnparseAll(Tail(nodes))

\* the returned tree is written back and parsed again
Reparse ==
    /\ ppc = "returned" /\ round = 1
    /\ sexp' = Unparse(tree)
    /\ pos' = 0 /\ stack' = <<>> /\ out' = <<>>
    /\ ppc' = "scan" /\ tree' = None /\ round' = 2
    /\ UNCHANGED <<sexp0, tree1, fmtVars, itemVars>>

ParseDone ==
    /\ ppc = "returned" /\ round = 2
    /\ ppc' = "done"
    /\ UNCHANGED <<sexp, pos, stack, out, tree, round, sexp0, tree1, fmtVars, itemVars>>

(***************************************************************************)
(* Inputs of the parser                                                    *)
(***************************************************************************)
ParseAlphabet == {"(", ")", " ", "\n", "a", "0", "1", ".", "-", "+", "\"", "\\", "^"}

ParseScenarios ==
    { Texts.Board, Texts.MissingClose, Texts.ExtraClose, Texts.OneDotZero,
      Texts.OneDotFive, Texts.MinusThree, Texts.EscapedQuote, Texts.TwoRoots,
      Texts.AtomThenList, Texts.NumberBeforeNewline, Texts.PlusFive, Texts.Caret,
      Texts.SplitQuote, Texts.EvenBackslash }

\* lists of two tokens "(t1 sep t2)" and the same text without the parens
TokenPool ==
    { <<"a">>, <<"1">>, <<"1", ".", "0">>, <<"1", ".", "5">>, <<"-", "3">>,
      <<"+", "5">>, <<"0", ".", "5", "0">>, <<"-", "0", ".", "0">>,
      <<"\"", "x", "\\", "\"", "y", "\"">>, <<"\"", "a", " ", "b", "\"">>,
      <<"\"", "\"">>, <<"\"", "a">>, <<"b", "\"">>, <<"\"", "1", "\"">>,
      <<"a", "^", "b">>, <<"^">>, <<"\"", "a", "\\", "\\", "\"">>,
      <<"\"", "a", "\"">> }

Separators == { <<" ">>, <<"\n">>, <<"\t", " ">> }

PairTexts ==
    UNION { { <<"(">> \o t1 \o sep \o t2 \o <<")">>, t1 \o sep \o t2 \o sep } :
            t1 \in TokenPool, t2 \in TokenPool, sep \in Separators }

ParseInputs ==
    ParseScenarios \cup PairTexts \cup TextsUpTo(ParseAlphabet, MaxParseLen)

ParseInit ==
    /\ sexp \in ParseInputs
    /\ pos = 0 /\ stack = <<>> /\ out = <<>>
    /\ ppc = "scan" /\ tree = None /\ round = 1
    /\ sexp0 = sexp /\ tree1 = None
    /\ FmtIdle
    /\ ItemIdle

(***************************************************************************)
(* Specifications                                                          *)
(***************************************************************************)
Init == FmtInit

Next ==
    \/ Whitespace
    \/ OpenParen
    \/ CloseParen
    \/ OtherChar
    \/ Return
    \/ Reformat
    \/ FmtDone

\* sexp_prettify, called on a text and again on its own output
Spec == Init /\ [][Next]_vars

\* a call that has started keeps running: the loop of lines 112-211 and the
\* caller's next call are never suspended for ever
FairSpec == Spec /\ WF_vars(Next)

ParseNext ==
    \/ BrackL
    \/ BrackR
    \/ Num
    \/ Sq
    \/ Sym
    \/ ParseEnd
    \/ Reparse
    \/ ParseDone

\* parse_sexp, called on a text and again on the unparsed tree
ParseSpec == ParseInit /\ [][ParseNext]_vars

(***************************************************************************)
(* A text is parsed, formatted, and the formatted text is parsed again     *)
(* (a board file is loaded, saved through sexp_prettify and loaded again). *)
(***************************************************************************)

PipeInputs == ParseInputs \cup { Texts.NumberBeforeList, Texts.QuotedGap }

PipeInit ==
    /\ sexp \in PipeInputs
    /\ pos = 0 /\ stack = <<>> /\ out = <<>>
    /\ ppc = "scan" /\ tree = None /\ round = 1
    /\ sexp0 = sexp /\ tree1 = None
    /\ FmtIdle
    /\ ItemIdle

\* the accepted text is handed to sexp_prettify with either flag
PipeFormat ==
    /\ ppc = "returned" /\ round = 1 /\ fpc = "idle"
    /\ FmtStart(sexp0)
    /\ compact_save' \in BOOLEAN
    /\ pass' = 1
    /\ source0' = sexp0
    /\ UNCHANGED <<result1, result2, parseVars, itemVars>>

\* the formatted text is handed to parse_sexp
PipeReparse ==
    /\ fpc = "returned" /\ pass = 1 /\ ppc = "returned" /\ round = 1
    /\ sexp' = result1
    /\ pos' = 0 /\ stack' = <<>> /\ out' = <<>>
    /\ ppc' = "scan" /\ tree' = None /\ round' = 2
    /\ fpc' = "done"
    /\ UNCHANGED <<sexp0, tree1, source, compact_save, formatted, cursor,
                   list_depth, last_non_whitespace, in_quote,
                   has_inserted_space, in_multi_line_list, in_xy,
                   in_short_form, short_form_depth, column, backslash_count,
                   pass, source0, result1, result2, itemVars>>

PipeNext ==
    \/ BrackL
    \/ BrackR
    \/ Num
    \/ Sq
    \/ Sym
    \/ ParseEnd
    \/ PipeFormat
    \/ Whitespace
    \/ OpenParen
    \/ CloseParen
    \/ OtherChar
    \/ Return
    \/ PipeReparse
    \/ ParseDone

PipeSpec == PipeInit /\ [][PipeNext]_vars

(***************************************************************************)
(* items/brditems.py: StackupLayer.from_sexpr                              *)
(* A parsed expression is a tree of the nodes that parse_sexp returns.     *)
(***************************************************************************)
MaxItems == 4

\* an attribute that is None
NoneNode == [k |-> "none", n |-> 0, e |-> 0, s |-> <<>>, c |-> <<>>]

\* the words that from_sexpr compares items with
W ==
    [layer |-> StrNode(<<"l", "a", "y", "e", "r">>),
     addsublayer |-> StrNode(<<"a", "d", "d", "s", "u", "b", "l", "a", "y", "e", "r">>),
     thickness |-> StrNode(<<"t", "h", "i", "c", "k", "n", "e", "s", "s">>),
     material |-> StrNode(<<"m", "a", "t", "e", "r", "i", "a", "l">>),
     epsilon_r |-> StrNode(<<"e", "p", "s", "i", "l", "o", "n", "_", "r">>),
     loss_tangent |-> StrNode(<<"l", "o", "s", "s", "_", "t", "a", "n", "g", "e", "n", "t">>),
     type |-> StrNode(<<"t", "y", "p", "e">>),
     color |-> StrNode(<<"c", "o", "l", "o", "r">>)]

\* StackupSubLayer(): lines 164-174
NewSubLayer ==
    [thickness |-> FloatNode(1, 1), material |-> NoneNode,
     epsilonR |-> NoneNode, lossTangent |-> NoneNode]

\* cls() with name = exp[1]: lines 270-271 and the defaults of lines 213-246
NewLayer(name) ==
    [name |-> name, type |-> StrNode(<<>>), color |-> NoneNode,
     thickness |-> NoneNode, material |-> NoneNode, epsilonR |-> NoneNode,
     lossTangent |-> NoneNode, subLayers |-> <<>>]

\* the items a layer expression is drawn from: the atom addsublayer, another
\* atom, and one list per attribute; the value of a list is filled in from
\* its position, so that every list of an expression has its own value
LayerItemKinds ==
    { W.addsublayer, StrNode(<<"x">>), W.thickness, W.material, W.epsilon_r,
      W.loss_tangent, W.type, W.color }
IsAtomKind(kind) == kind \in { W.addsublayer, StrNode(<<"x">>) }
LayerItem(kind, i) ==
    IF IsAtomKind(kind) THEN kind ELSE ListNode(<<kind, IntNode(i)>>)
LayerExp(kinds) ==
    ListNode(<<W.layer, StrNode(<<"F">>)>>
                 \o [i \in 1..Len(kinds) |-> LayerItem(kinds[i], i)])
LayerExps ==
    { LayerExp(kinds) :
        kinds \in UNION { [1..n -> LayerItemKinds] : n \in 0..MaxItems } }

\* exp[i] of the code
ExpAt(i) == exp.c[i + 1]
item == ExpAt(item_i)
IsList(node) == node.k = "list"

layerCallerUnchanged ==
    UNCHANGED <<exp, key, flag_value, flag_compact, yesno, text, object0,
                result, fmtVars, parseVars>>

\* lines 262-271: the checks have passed, the loop is about to start
LayerInit ==
    /\ exp \in LayerExps
    /\ item_i = 2
    /\ object = NewLayer(exp.c[2])
    /\ parsingSublayer = FALSE
    /\ tempSublayer = NewSubLayer
    /\ key = <<>> /\ flag_value = FALSE /\ flag_compact = FALSE
    /\ yesno = FALSE /\ text = <<>> /\ object0 = None /\ result = None
    /\ ipc = "loop"
    /\ FmtIdle /\ ParseIdle

\* lines 273-284: an item that is not a list
LayerAtom ==
    /\ ipc = "loop" /\ item_i < Len(exp.c)
    /\ ~IsList(item)
    /\ IF item = W.addsublayer
       THEN IF parsingSublayer
            THEN /\ object' = [object EXCEPT !.subLayers = Append(@, tempSublayer)]
                 /\ tempSublayer' = NewSubLayer
                 /\ UNCHANGED parsingSublayer
            ELSE /\ parsingSublayer' = TRUE
                 /\ UNCHANGED <<object, tempSublayer>>
       ELSE UNCHANGED <<object, tempSublayer, parsingSublayer>>
    /\ item_i' = item_i + 1
    /\ UNCHANGED ipc
    /\ layerCallerUnchanged

\* one "if item[0] == word: target.field = item[1]" of lines 288-300
SetIf(target, word, field) ==
    IF item.c[1] = word THEN [target EXCEPT ![field] = item.c[2]] ELSE target

\* lines 287-292: a list while a sublayer is being parsed
LayerSubAttr ==
    /\ ipc = "loop" /\ item_i < Len(exp.c)
    /\ IsList(item) /\ parsingSublayer
    /\ tempSublayer' =
          SetIf(SetIf(SetIf(SetIf(tempSublayer, W.thickness, "thickness"),
                            W.material, "material"),
                      W.epsilon_r, "epsilonR"),
                W.loss_tangent, "lossTangent")
    /\ item_i' = item_i + 1
    /\ UNCHANGED <<object, parsingSublayer, ipc>>
    /\ layerCallerUnchanged

\* lines 295-300: a list before the first addsublayer
LayerAttr ==
    /\ ipc = "loop" /\ item_i < Len(exp.c)
    /\ IsList(item) /\ ~parsingSublayer
    /\ object' =
          SetIf(SetIf(SetIf(SetIf(SetIf(SetIf(object, W.type, "type"),
                                        W.thickness, "thickness"),
                                  W.material, "material"),
                            W.epsilon_r, "epsilonR"),
                      W.loss_tangent, "lossTangent"),
                W.color, "color")
    /\ item_i' = item_i + 1
    /\ UNCHANGED <<tempSublayer, parsingSublayer, ipc>>
    /\ layerCallerUnchanged

\* the last sublayer is left out
AddLastSublayerMut(parsing, subLayers, temp) == subLayers
\* lines 303-304: the last parsed sublayer is added, if any
AddLastSublayer(parsing, subLayers, temp) ==
    IF parsing THEN Append(subLayers, temp) ELSE subLayers

\* lines 302-306: the loop is over
LayerReturn ==
    /\ ipc = "loop" /\ item_i >= Len(exp.c)
    /\ object' = [object EXCEPT
                    !.subLayers = AddLastSublayer(parsingSublayer, @, tempSublayer)]
    /\ ipc' = "returned"
    /\ UNCHANGED <<item_i, tempSublayer, parsingSublayer>>
    /\ layerCallerUnchanged

LayerNext ==
    \/ LayerAtom
    \/ LayerSubAttr
    \/ LayerAttr
    \/ LayerReturn

\* StackupLayer.from_sexpr on a parsed (layer ...) expression
LayerSpec == LayerInit /\ [][LayerNext]_vars

(***************************************************************************)
(* Properties of the parser                                                *)
(***************************************************************************)
\* the nesting depth after the tokens of s from offset p on, starting at
\* depth d; -1 once a close paren token arrives at depth 0
RECURSIVE DepthAfter(_, _, _)
DepthAfter(s, p, d) ==
    LET t == NextToken(s, p)
    IN  IF t.term = "none" THEN d
        ELSE IF t.term = "brackl" THEN DepthAfter(s, t.end, d + 1)
        ELSE IF t.term = "brackr"
             THEN IF d = 0 THEN -1 ELSE DepthAfter(s, t.end, d - 1)
        ELSE DepthAfter(s, t.end, d)

Unbalanced(s) == DepthAfter(s, 0, 0) # 0

A == StrNode(<<"a">>)

\* C3: a text with a close paren token while no list is open, or with a list
\* still open at its end, is never parsed to a tree: the call ends with the
\* nesting assertion error and returns nothing.
C3_BalanceChecked ==
    Unbalanced(sexp) =>
        /\ ppc \in {"scan", "AssertionError"}
        /\ tree = None
        /\ (round = 1 => tree1 = None)

C3_Witness ==
    /\ sexp0 = Texts.MissingClose /\ round = 1
    /\ ppc = "AssertionError" /\ tree = None

\* C4: the tree of the unparsed tree equals the tree, atom kinds included.
C4_RoundTrip ==
    round = 2 =>
        /\ ppc \in {"scan", "returned", "done"}
        /\ (ppc \in {"returned", "done"} => tree = tree1)

\* the digits of a numeric text without sign and point, and the number of
\* digits behind the point: the text denotes sign * digits / 10^places
NumSign(t) == IF t[1] = "-" THEN -1 ELSE 1
NumDigits(t) == SelectSeq(t, LAMBDA c : c \in Digits)
NumPlaces(t) ==
    IF \E i \in 1..Len(t) : t[i] = "."
    THEN Len(t) - (CHOOSE i \in 1..Len(t) : t[i] = ".")
    ELSE 0
FractionIsZero(t) ==
    \A i \in 1..Len(t) : (\E j \in 1..(i - 1) : t[j] = ".") => t[i] = "0"

\* C5: a numeric token with a zero fractional part is stored as the integer
\* of that value, any other numeric token as the float of that value; so
\* "(a 1.0)" gives [a, 1], "(a 1.5)" gives [a, 1.5] and "(a -3)" gives [a, -3].
C5_NumericCoercion ==
    /\ [](ppc = "returned" /\ sexp = Texts.OneDotZero => tree = ListNode(<<A, IntNode(1)>>))
    /\ [](ppc = "returned" /\ sexp = Texts.OneDotFive => tree = ListNode(<<A, FloatNode(15, 1)>>))
    /\ [](ppc = "returned" /\ sexp = Texts.MinusThree => tree = ListNode(<<A, IntNode(-3)>>))
    /\ [][Num =>
            LET v == out'[Len(out')]
                m == NumSign(value) * DigitsVal(NumDigits(value))
            IN  /\ Len(out') = Len(out) + 1
                /\ v.k = IF FractionIsZero(value) THEN "int" ELSE "float"
                /\ v.n * Pow10(NumPlaces(value)) = m * Pow10(v.e)]_vars

C5_Witness ==
    /\ sexp0 = Texts.OneDotZero /\ round = 1 /\ ppc = "returned"
    /\ tree = ListNode(<<A, IntNode(1)>>)

\* optional sign, digits, optional point and digits
IsNumberText(t) ==
    LET body == IF t # <<>> /\ t[1] \in {"+", "-"} THEN Tail(t) ELSE t
        a == DigitsEnd(body, 0)
    IN  /\ a > 0
        /\ \/ a = Len(body)
           \/ At(body, a) = "." /\ DigitsEnd(body, a + 1) = Len(body) /\ a + 1 < Len(body)

IsDelimiter(c) == c = NUL \/ IsSpace(c) \/ c \in {"(", ")"}

\* C6: a token of the form of a number that is directly followed by a
\* whitespace character or a close paren is never lexed as a symbol.
C6_NumberRecognised ==
    (ppc = "scan" /\ tok.term = "s")
        => ~(IsNumberText(value) /\ (IsSpace(At(sexp, tok.end)) \/ At(sexp, tok.end) = ")"))

\* t without every backslash that stands directly before a quote
RECURSIVE DropEscapesFrom(_, _)
DropEscapesFrom(t, i) ==
    IF i > Len(t) THEN <<>>
    ELSE (IF t[i] = "\\" /\ i < Len(t) /\ t[i + 1] = "\"" THEN <<>> ELSE <<t[i]>>)
            \o DropEscapesFrom(t, i + 1)

\* C7: a quoted token yields the string between its delimiting quotes with
\* each backslash-quote replaced by a quote; (a "x\"y") gives [a, x"y].
C7_QuotedContent ==
    /\ [](ppc = "returned" /\ sexp = Texts.EscapedQuote
            => tree = ListNode(<<A, StrNode(<<"x", "\"", "y">>)>>))
    /\ [][Sq =>
            /\ value[1] = "\"" /\ value[Len(value)] = "\""
            /\ out' = Append(out, StrNode(DropEscapesFrom(Slice(sexp, tok.start + 1, tok.end - 1), 1)))]_vars

C7_Witness ==
    /\ sexp0 = Texts.EscapedQuote /\ round = 1 /\ ppc = "returned"
    /\ tree = ListNode(<<A, StrNode(<<"x", "\"", "y">>)>>)

\* C8: the next token starts at the next character that is not whitespace
\* (nothing else is passed over), and a symbol token is a whole run: it is
\* delimited on both sides by whitespace, a parenthesis or the text's end.
C8_SymbolRuns ==
    ppc = "scan" =>
        IF tok.term = "none" THEN SkipSpace(sexp, pos) >= Len(sexp)
        ELSE /\ tok.start = SkipSpace(sexp, pos)
             /\ tok.term = "s" =>
                    IsDelimiter(At(sexp, tok.start - 1)) /\ IsDelimiter(At(sexp, tok.end))

\* C9: a text with more than one top-level expression is not parsed to a
\* tree: whenever parse_sexp returns, it has read exactly one.
C9_SingleRoot ==
    ppc \in {"returned", "done"} => Len(out) = 1

\* C10: a text without any expression fails with the error that unbalanced
\* parentheses raise.
C10_MissingRootError ==
    (ppc # "scan" /\ SkipSpace(sexp, 0) >= Len(sexp)) => ppc = "AssertionError"

\* C18: inside a quoted string only a quote preceded by an odd number of
\* backslashes is content; a quote preceded by an even number (zero
\* included) ends the string, so no sq token holds such a quote inside.
C18_EscapeParity ==
    (ppc = "scan" /\ tok.term = "sq") =>
        \A j \in 2..(Len(value) - 1) :
            value[j] = "\"" => BackslashRun(value, j - 1) % 2 = 1

\* C21: a quoted-string token and a bare symbol token yield atoms that can
\* be told apart in the returned tree: when the first two elements of the
\* root list come from a quoted string and from a symbol, they differ.
C21_AtomKindsApart ==
    (ppc = "returned" /\ round = 1) =>
        LET t0 == NextToken(sexp, 0)
            t1 == NextToken(sexp, t0.end)
            t2 == NextToken(sexp, t1.end)
        IN  (t0.term = "brackl" /\ t1.term = "sq" /\ t2.term = "s"
                /\ tree.k = "list" /\ Len(tree.c) >= 2)
              => tree.c[1] # tree.c[2]

\* C22: formatting does not change what the text means: when a text that
\* parse_sexp accepts is formatted with either flag, the formatted text is
\* accepted too and parses to the same tree.
C22_FormatKeepsTree ==
    (round = 2 /\ fpc = "done" /\ ppc \notin {"scan", "idle"}) =>
        ppc \in {"returned", "done"} /\ tree = tree1

\* open paren tokens minus close paren tokens among the tokens of s that
\* start at or after p and end at or before limit
RECURSIVE OpenMinusClose(_, _, _)
OpenMinusClose(s, p, limit) ==
    LET t == NextToken(s, p)
    IN  IF t.term = "none" \/ t.end > limit THEN 0
        ELSE (IF t.term = "brackl" THEN 1 ELSE IF t.term = "brackr" THEN -1 ELSE 0)
                 + OpenMinusClose(s, t.end, limit)

\* the atom that a token stands for
AtomOf(s, t) ==
    IF t.term = "num" THEN NumValue(Slice(s, t.start, t.end))
    ELSE IF t.term = "sq" THEN StrNode(SqValue(Slice(s, t.start, t.end)))
    ELSE StrNode(Slice(s, t.start, t.end))

\* the elements that the text holds from offset p up to the close paren of
\* the enclosing list (or the end of the text), read by recursive descent:
\* c are the elements in order, p is the offset behind that close paren
RECURSIVE ItemsFrom(_, _)
ItemsFrom(s, p) ==
    LET t == NextToken(s, p)
    IN  IF t.term = "none" THEN [c |-> <<>>, p |-> Len(s)]
        ELSE IF t.term = "brackr" THEN [c |-> <<>>, p |-> t.end]
        ELSE IF t.term = "brackl"
             THEN LET inner == ItemsFrom(s, t.end)
                      rest == ItemsFrom(s, inner.p)
                  IN  [c |-> <<ListNode(inner.c)>> \o rest.c, p |-> rest.p]
        ELSE LET rest == ItemsFrom(s, t.end)
             IN  [c |-> <<AtomOf(s, t)>> \o rest.c, p |-> rest.p]

\* C25: after each token the number of stacked accumulators is the number
\* of open parens minus close parens consumed; an open paren pushes the
\* current accumulator and starts an empty one; a close paren appends the
\* finished accumulator as the last element of the popped parent; an atom is
\* appended to the current accumulator only; a returned tree has the
\* nesting and the element order of the text.
C25_StackDiscipline ==
    /\ [](ppc = "scan" => Len(stack) = OpenMinusClose(sexp, 0, pos))
    /\ [][(ppc = "scan" /\ tok.term = "brackl")
            => stack' = Append(stack, out) /\ out' = <<>>]_vars
    /\ [][(ppc = "scan" /\ tok.term = "brackr" /\ ppc' = "scan")
            => /\ stack' = SubSeq(stack, 1, Len(stack) - 1)
               /\ out' = stack[Len(stack)] \o <<ListNode(out)>>]_vars
    /\ [][(ppc = "scan" /\ tok.term \in {"num", "sq", "s"})
            => /\ stack' = stack
               /\ out' = out \o <<AtomOf(sexp, tok)>>]_vars
    /\ [](ppc = "returned" => tree = ItemsFrom(sexp, 0).c[1])

\* the board text has been parsed to a list of three elements, two of them
\* lists
C25_Witness ==
    /\ ppc = "returned" /\ round = 1 /\ sexp = Texts.Board
    /\ tree.k = "list" /\ Len(tree.c) = 3
    /\ tree.c[2].k = "list" /\ Len(tree.c[2].c) = 4
    /\ tree.c[3].k = "list" /\ stack = <<>>

\* the items of the layer expression: exp[2:]
LayerItems == SubSeq(exp.c, 3, Len(exp.c))

\* the positions of the addsublayer atoms among the items
SublayerTokens == { i \in 1..Len(LayerItems) : LayerItems[i] = W.addsublayer }

\* the number of addsublayer atoms up to position i: the sublayer that the
\* item at i belongs to, 0 for the layer itself
SublayerOf(i) == Cardinality({ j \in SublayerTokens : j <= i })

\* the value of attribute word that the items hold for sublayer k: that of
\* the last list headed by word among the items of k, or the default
AttrOf(k, word, default) ==
    LET at == { i \in 1..Len(LayerItems) :
                  /\ IsList(LayerItems[i]) /\ LayerItems[i].c[1] = word
                  /\ SublayerOf(i) = k }
    IN  IF at = {} THEN default
        ELSE LayerItems[CHOOSE i \in at : \A j \in at : j <= i].c[2]

\* C26: the subLayers list has one entry per addsublayer atom, in order;
\* the attribute lists between the k-th addsublayer and the next one go to
\* the k-th sublayer only, those before the first go to the layer only.
C26_SublayerPerToken ==
    ipc = "returned" =>
        /\ Len(object.subLayers) = Cardinality(SublayerTokens)
        /\ \A k \in 1..Len(object.subLayers) :
              object.subLayers[k] =
                  [thickness |-> AttrOf(k, W.thickness, FloatNode(1, 1)),
                   material |-> AttrOf(k, W.material, NoneNode),
                   epsilonR |-> AttrOf(k, W.epsilon_r, NoneNode),
                   lossTangent |-> AttrOf(k, W.loss_tangent, NoneNode)]
        /\ object.thickness = AttrOf(0, W.thickness, NoneNode)
        /\ object.material = AttrOf(0, W.material, NoneNode)
        /\ object.epsilonR = AttrOf(0, W.epsilon_r, NoneNode)
        /\ object.lossTangent = AttrOf(0, W.loss_tangent, NoneNode)

\* (layer F (thickness 1) addsublayer (material 3) addsublayer) has been
\* read: the layer has the thickness, the first sublayer the material, the
\* second sublayer only defaults
C26_Witness ==
    /\ ipc = "returned"
    /\ exp = LayerExp(<<W.thickness, W.addsublayer, W.material, W.addsublayer>>)
    /\ object.thickness = IntNode(1) /\ object.material = NoneNode
    /\ Len(object.subLayers) = 2
    /\ object.subLayers[1].material = IntNode(3)
    /\ object.subLayers[2] = NewSubLayer

(***************************************************************************)
(* utils/parsing_utils.py: parse_bool and format_bool                      *)
(***************************************************************************)
\* the texts of the keys and words of the items
T ==
    [locked |-> <<"l", "o", "c", "k", "e", "d">>,
     hide |-> <<"h", "i", "d", "e">>,
     unlocked |-> <<"u", "n", "l", "o", "c", "k", "e", "d">>,
     free |-> <<"f", "r", "e", "e">>,
     remove_unused_layers |-> <<"r", "e", "m", "o", "v", "e", "_", "u", "n", "u", "s", "e", "d", "_", "l", "a", "y", "e", "r", "s">>,
     keep_end_layers |-> <<"k", "e", "e", "p", "_", "e", "n", "d", "_", "l", "a", "y", "e", "r", "s">>,
     keepEndLayers |-> <<"k", "e", "e", "p", "E", "n", "d", "L", "a", "y", "e", "r", "s">>,
     zone_layer_connections |-> <<"z", "o", "n", "e", "_", "l", "a", "y", "e", "r", "_", "c", "o", "n", "n", "e", "c", "t", "i", "o", "n", "s">>,
     castellated_pads |-> <<"c", "a", "s", "t", "e", "l", "l", "a", "t", "e", "d", "_", "p", "a", "d", "s">>,
     edge_plating |-> <<"e", "d", "g", "e", "_", "p", "l", "a", "t", "i", "n", "g">>,
     yes |-> <<"y", "e", "s">>,
     no |-> <<"n", "o">>,
     via |-> <<"v", "i", "a">>,
     at |-> <<"a", "t">>,
     size |-> <<"s", "i", "z", "e">>,
     drill |-> <<"d", "r", "i", "l", "l">>,
     layers |-> <<"l", "a", "y", "e", "r", "s">>,
     net |-> <<"n", "e", "t">>,
     tstamp |-> <<"t", "s", "t", "a", "m", "p">>,
     uuid |-> <<"u", "u", "i", "d">>,
     micro |-> <<"m", "i", "c", "r", "o">>,
     blind |-> <<"b", "l", "i", "n", "d">>]

\* the keys that the items of the repository pass to format_bool
BoolKeys ==
    { T.locked, T.hide, T.unlocked, T.free, T.remove_unused_layers,
      T.keep_end_layers, T.castellated_pads, T.edge_plating }

\* lines 18-24 (value is a bool here, so line 20 does not raise)
format_bool(k, v, c, y) ==
    IF ~y /\ ~v THEN <<>>
    ELSE IF c THEN k
    ELSE IF ~y THEN <<"(">> \o k \o <<" ">> \o T.yes \o <<")">>
    ELSE <<"(">> \o k \o <<" ">> \o (IF v THEN T.yes ELSE T.no) \o <<")">>

\* str.lower() on the letters of the model's texts
UpperLetters == <<"Y", "E", "S", "N", "O">>
LowerLetters == <<"y", "e", "s", "n", "o">>
LowerChar(c) ==
    IF \E i \in 1..Len(UpperLetters) : UpperLetters[i] = c
    THEN LowerLetters[CHOOSE i \in 1..Len(UpperLetters) : UpperLetters[i] = c]
    ELSE c
Lower(s) == [i \in 1..Len(s) |-> LowerChar(s[i])]

\* lines 3-15: the value returned, "None" where the function falls off its
\* end, "AttributeError" where item[1] has no lower()
parse_bool(it, k) ==
    IF it.k = "str" THEN (IF it.s = k THEN "True" ELSE "False")
    ELSE IF it.k = "list" /\ Len(it.c) = 1
         THEN (IF it.c[1] = StrNode(k) THEN "True" ELSE "False")
    ELSE IF it.k = "list" /\ Len(it.c) = 2
         THEN IF it.c[1] # StrNode(k) THEN "False"
              ELSE IF it.c[2].k # "str" THEN "AttributeError"
              ELSE IF Lower(it.c[2].s) = T.yes THEN "True" ELSE "False"
    ELSE "None"

\* parse_sexp(t) for a text that it accepts: lines 18-43
ParsedForm(t) == ItemsFrom(t, 0).c[1]

boolCallerUnchanged ==
    UNCHANGED <<key, flag_value, flag_compact, yesno, item_i, object,
                parsingSublayer, tempSublayer, object0, fmtVars, parseVars>>

BoolInit ==
    /\ key \in BoolKeys
    /\ flag_value \in BOOLEAN /\ flag_compact \in BOOLEAN /\ yesno \in BOOLEAN
    /\ text = <<>> /\ exp = None /\ result = None
    /\ item_i = 0 /\ object = None /\ parsingSublayer = FALSE
    /\ tempSublayer = None /\ object0 = None
    /\ ipc = "format"
    /\ FmtIdle /\ ParseIdle

\* format_bool(key, value, compact, yesno)
FormatBool ==
    /\ ipc = "format"
    /\ text' = format_bool(key, flag_value, flag_compact, yesno)
    /\ ipc' = "parse"
    /\ UNCHANGED <<exp, result>>
    /\ boolCallerUnchanged

\* an empty output: the token is absent and the flag keeps its default False
TokenAbsent ==
    /\ ipc = "parse" /\ text = <<>>
    /\ result' = "False"
    /\ ipc' = "returned"
    /\ UNCHANGED <<exp, text>>
    /\ boolCallerUnchanged

\* the token is parsed
ParseToken ==
    /\ ipc = "parse" /\ text # <<>>
    /\ exp' = ParsedForm(text)
    /\ ipc' = "call"
    /\ UNCHANGED <<text, result>>
    /\ boolCallerUnchanged

\* parse_bool(item, key)
ParseBool ==
    /\ ipc = "call"
    /\ result' = parse_bool(exp, key)
    /\ ipc' = "returned"
    /\ UNCHANGED <<exp, text>>
    /\ boolCallerUnchanged

BoolNext ==
    \/ FormatBool
    \/ TokenAbsent
    \/ ParseToken
    \/ ParseBool

\* format_bool, parse_sexp and parse_bool in a row
BoolSpec == BoolInit /\ [][BoolNext]_vars

BoolText(v) == IF v THEN "True" ELSE "False"

\* C29: parse_bool applied with the same key to the parsed output of
\* format_bool(key, v, compact, yesno) returns v, an empty output counting
\* as False.
C29_BoolRoundTrip ==
    ipc = "returned" => result = BoolText(flag_value)

(***************************************************************************)
(* items/brditems.py: Via.to_sexpr and Via.from_sexpr                      *)
(***************************************************************************)

\* format_float of the default 0.0 of position.X, position.Y and size
FormatFloatZero == <<"0">>
\* f'{self.drill}' of the default 0.0, f'{self.net}' of the default 0
DrillText == <<"0", ".", "0">>
NetText == <<"0">>

\* a Via with the default position, size, drill, layers, net and tstamp
NewVia ==
    [type |-> NoneNode, locked |-> FALSE, removeUnusedLayers |-> FALSE,
     keepEndLayers |-> FALSE, free |-> FALSE,
     zone_layer_connections |-> FALSE,
     size |-> FloatNode(0, 0), drill |-> FloatNode(0, 0), layers |-> <<>>,
     net |-> IntNode(0), tstamp |-> NoneNode]

ViaFlags ==
    {"locked", "removeUnusedLayers", "keepEndLayers", "free",
     "zone_layer_connections"}

\* the vias that are written: every setting of the five flags, with and
\* without a type
ViaObjects ==
    { [[[[[[NewVia EXCEPT !.type = ty]
                   EXCEPT !.locked = l]
                   EXCEPT !.removeUnusedLayers = r]
                   EXCEPT !.keepEndLayers = k]
                   EXCEPT !.free = f]
                   EXCEPT !.zone_layer_connections = z] :
        ty \in {NoneNode, StrNode(T.micro)}, l \in BOOLEAN, r \in BOOLEAN,
        k \in BOOLEAN, f \in BOOLEAN, z \in BOOLEAN }

\* lines 1056-1083 with indent=2 and newline=True
Via_to_sexpr(o) ==
    LET sp == <<" ">>
        type == IF o.type # NoneNode THEN sp \o o.type.s ELSE <<>>
        locked == sp \o format_bool(T.locked, o.locked, FALSE, FALSE)
        layers == <<>>
        rum == sp \o format_bool(T.remove_unused_layers,
                                 o.removeUnusedLayers, FALSE, FALSE)
        kel == sp \o format_bool(T.keep_end_layers, o.keepEndLayers,
                                 FALSE, FALSE)
        free == sp \o format_bool(T.free, o.free, FALSE, FALSE)
        tstamp == <<>>
        zlc == IF o.zone_layer_connections
               THEN sp \o <<"(">> \o T.zone_layer_connections \o <<")">>
               ELSE <<>>
    IN  sp \o sp \o <<"(">> \o T.via \o type \o sp
        \o <<"(">> \o T.at \o sp \o FormatFloatZero \o sp \o FormatFloatZero
        \o <<")">> \o sp
        \o <<"(">> \o T.size \o sp \o FormatFloatZero \o <<")">> \o sp
        \o <<"(">> \o T.drill \o sp \o DrillText \o <<")">> \o sp
        \o <<"(">> \o T.layers \o layers \o <<")">>
        \o rum \o kel \o locked \o free \o zlc
        \o sp \o <<"(">> \o T.net \o sp \o NetText \o <<")">>
        \o tstamp \o <<")">> \o <<"\n">>

\* the keys of lines 1036-1040 in the order of the elif chain, and the
\* field that each sets
ViaKeys ==
    <<T.locked, T.remove_unused_layers, T.keepEndLayers, T.free,
      T.zone_layer_connections>>
ViaFields ==
    <<"locked", "removeUnusedLayers", "keepEndLayers", "free",
      "zone_layer_connections">>

\* the first branch of lines 1036-1040 whose parse_bool is truthy, 0 if none
FirstFlag(it) ==
    IF \E i \in 1..Len(ViaKeys) : parse_bool(it, ViaKeys[i]) = "True"
    THEN CHOOSE i \in 1..Len(ViaKeys) :
            /\ parse_bool(it, ViaKeys[i]) = "True"
            /\ \A j \in 1..(i - 1) : parse_bool(it, ViaKeys[j]) # "True"
    ELSE 0

\* a parse_bool of the chain raises before any branch is taken
FlagRaises(it) ==
    \E i \in 1..Len(ViaKeys) :
        /\ parse_bool(it, ViaKeys[i]) = "AttributeError"
        /\ \A j \in 1..(i - 1) : parse_bool(it, ViaKeys[j]) # "True"

ViaListKeys ==
    {T.at, T.size, T.drill, T.layers, T.net, T.tstamp, T.uuid}

\* lines 1041-1052: the item reaches one of the two raise statements
ItemRaises(it) ==
    /\ FirstFlag(it) = 0
    /\ IF it.k # "list" THEN it \notin {StrNode(T.micro), StrNode(T.blind)}
       ELSE it.c = <<>> \/ it.c[1].k # "str" \/ it.c[1].s \notin ViaListKeys

\* lines 1036-1050 for an item that raises nothing (the position that line
\* 1044 sets is left out of the record)
ViaAssign(o, it) ==
    IF FirstFlag(it) # 0
    THEN [o EXCEPT ![ViaFields[FirstFlag(it)]] = TRUE]
    ELSE IF it.k # "list" THEN [o EXCEPT !.type = it]
    ELSE IF it.c[1].s = T.at THEN o
    ELSE IF it.c[1].s = T.size THEN [o EXCEPT !.size = it.c[2]]
    ELSE IF it.c[1].s = T.drill THEN [o EXCEPT !.drill = it.c[2]]
    ELSE IF it.c[1].s = T.layers
         THEN [o EXCEPT !.layers = @ \o SubSeq(it.c, 2, Len(it.c))]
    ELSE IF it.c[1].s = T.net THEN [o EXCEPT !.net = it.c[2]]
    ELSE [o EXCEPT !.tstamp = it.c[2]]

viaCallerUnchanged ==
    UNCHANGED <<key, flag_value, flag_compact, yesno, parsingSublayer,
                tempSublayer, object0, result, fmtVars, parseVars>>

ViaInit ==
    /\ object0 \in ViaObjects
    /\ text = <<>> /\ exp = None /\ object = None /\ item_i = 0
    /\ result = None /\ key = <<>>
    /\ flag_value = FALSE /\ flag_compact = FALSE /\ yesno = FALSE
    /\ parsingSublayer = FALSE /\ tempSublayer = None
    /\ ipc = "write"
    /\ FmtIdle /\ ParseIdle

\* text = via.to_sexpr()
ViaWrite ==
    /\ ipc = "write"
    /\ text' = Via_to_sexpr(object0)
    /\ ipc' = "parse"
    /\ UNCHANGED <<exp, object, item_i>>
    /\ viaCallerUnchanged

\* exp = parse_sexp(text)
ViaParse ==
    /\ ipc = "parse"
    /\ exp' = ParsedForm(text)
    /\ ipc' = "call"
    /\ UNCHANGED <<text, object, item_i>>
    /\ viaCallerUnchanged

\* lines 1028-1034: the two type checks, object = cls()
ViaEnter ==
    /\ ipc = "call"
    /\ IF exp.k # "list" \/ exp.c = <<>> \/ exp.c[1] # StrNode(T.via)
       THEN ipc' = "Exception" /\ UNCHANGED <<object, item_i>>
       ELSE ipc' = "loop" /\ object' = NewVia /\ item_i' = 1
    /\ UNCHANGED <<text, exp>>
    /\ viaCallerUnchanged

\* one item of the loop whose branch assigns
ViaItem ==
    /\ ipc = "loop" /\ item_i < Len(exp.c)
    /\ ~FlagRaises(item) /\ ~ItemRaises(item)
    /\ object' = ViaAssign(object, item)
    /\ item_i' = item_i + 1
    /\ UNCHANGED <<text, exp, ipc>>
    /\ viaCallerUnchanged

\* one item of the loop that raises: lines 1043 and 1052, or the
\* AttributeError out of parse_bool
ViaRaise ==
    /\ ipc = "loop" /\ item_i < Len(exp.c)
    /\ FlagRaises(item) \/ ItemRaises(item)
    /\ ipc' = IF FlagRaises(item) THEN "AttributeError" ELSE "ValueError"
    /\ UNCHANGED <<text, exp, object, item_i>>
    /\ viaCallerUnchanged

\* line 1054
ViaReturn ==
    /\ ipc = "loop" /\ item_i >= Len(exp.c)
    /\ ipc' = "returned"
    /\ UNCHANGED <<text, exp, object, item_i>>
    /\ viaCallerUnchanged

ViaNext ==
    \/ ViaWrite
    \/ ViaParse
    \/ ViaEnter
    \/ ViaItem
    \/ ViaRaise
    \/ ViaReturn

\* Via.from_sexpr(parse_sexp(via.to_sexpr()))
ViaSpec == ViaInit /\ [][ViaNext]_vars

ViaEnded == ipc \in {"returned", "Exception", "ValueError", "AttributeError"}

\* C30: a Via written with to_sexpr, parsed and read back with from_sexpr
\* comes back, with each of locked, removeUnusedLayers, keepEndLayers, free
\* and zone_layer_connections as it was written.
C30_ViaFlagsRoundTrip ==
    ViaEnded => /\ ipc = "returned"
                /\ \A f \in ViaFlags : object[f] = object0[f]

====
